---------------------------- MODULE Spec2Model ----------------------------
(***************************************************************************)
(* State-machine model of the threatPool sources:                          *)
(*   semaphore / fast_semaphore      (unnamed/part_000)                    *)
(*   atomic_blocking_queue(_impl)    (queue.h)                             *)
(*   thread_pool                     (threat_pool.h)                       *)
(*                                                                         *)
(* Every thread is a record in thr; one action is one shared-memory access *)
(* of the source (an atomic read-modify-write, a load, a store, or a       *)
(* critical section of the inner semaphore's mutex).  Purely thread-local  *)
(* control flow between two shared accesses (returning from a call,        *)
(* advancing a loop index, entering the next call) is folded into the      *)
(* access that precedes it.  Memory is sequentially consistent: a read or *)
(* an increment of a volatile commit counter is one step, and a slot write *)
(* is visible to every thread as soon as it is made.                       *)
(***************************************************************************)
EXTENDS Integers, Sequences, FiniteSets, TLC

VARIABLES
    sems,        \* semaphore id -> fast_semaphore object (m_count, m_semaphore)
    thr,         \* thread id -> thread record (position and locals)
    queues,      \* queue index -> atomic_blocking_queue object
    m_index,     \* thread_pool::m_index, the rotating submission index
    executed,    \* task -> number of times a worker has run it
    pushed,      \* queue index -> items in the order of their push tickets
    pool,        \* PoolSpec: what held when ~thread_pool called done()
    sut,         \* SemSpec: class under test, "semaphore" or "fast_semaphore"
    init_count,  \* SemSpec: constructor argument of the object under test
    ref,         \* SemSpec: a plain semaphore driven by the same sequential calls
    seq,         \* SemSpec: TRUE while no two calls have overlapped in time
    closing,     \* SemSpec: record of what was the case when done() was called
    tally,       \* SemSpec: calls issued so far per kind, and waits returned
    ring,        \* RingSpec: the LockFreeQueue object
    build,       \* CtorSpec: a thread_pool constructor call in progress
    low,         \* QueueSpec: threads whose try call has met a counter <= 0
    dtor         \* DtorSpec: a destructor call of atomic_blocking_queue_impl

vars == <<sems, thr, queues, m_index, executed, pushed, pool,
          sut, init_count, ref, seq, closing, tally, ring, build, low, dtor>>

---------------------------------------------------------------------------
(* Bounds of the model *)

\* fast_semaphore spin budget (10000 in the source, part_000:108)
SpinBudget == 1
\* SemSpec: number of threads calling the semaphore under test
NCallers == 3
\* SemSpec: calls issued in all
MaxCalls == 4
\* SemSpec: largest constructor argument
MaxInit == 1
\* the queue capacities Q_SIZE are 2^0 .. 2^QSizeLog (4096 by default,
\* queue.h:658)
QSizeLog == 1
\* QueueSpec: producers, consumers, items pushed in all
NProducers == 2
NConsumers == 2
MaxItems == 3
\* QueueSpec: producers and consumers running together; when there are
\* fewer, a closer runs with them
MaxParties == 3
\* PoolSpec: worker threads, queues, clients, tasks submitted in all
NWorkers == 2
NQueues == 2
NClients == 2
MaxTasks == 2
\* PoolSpec: workers and clients running together
MaxPoolThreads == 3

\* CtorSpec: thread_pool is constructed with 0 .. MaxCtorThreads threads
MaxCtorThreads == 3

\* CtorSpec: thread_pool is constructed with 0 .. MaxCtorQueues queues
MaxCtorQueues == 4

\* CtorSpec: enqueue_work reads m_index values 0 .. MaxCtorIndex
MaxCtorIndex == 4

\* DtorSpec: Q_SIZE ranges over 2^0 .. 2^DtorSizeLog
DtorSizeLog == 2

\* DtorSpec: the pop commit counter at destruction ranges over 0..MaxDtorIndex
MaxDtorIndex == 5

\* RingSpec: LockFreeQueue capacities are 2^0 .. 2^RingSizeLog (4 in main.cpp)
RingSizeLog == 1

\* RingSpec: n_producers and n_consumers range over 1 .. MaxRingParties
MaxRingParties == 2

\* RingSpec: at most this many threads use the queue
MaxRingThreads == 3

\* RingSpec: the pushing threads make this many push calls between them,
\* and the popping threads as many pop calls
MaxRingOps == 2

---------------------------------------------------------------------------
(* semaphore (part_000:14-84) and fast_semaphore (part_000:86-152) objects *)

\* semaphore::semaphore(count): m_count(count), m_done = false
semaphore(count) == [m_count |-> count, m_done |-> FALSE]

\* fast_semaphore::fast_semaphore(init_count): m_count(init_count), m_semaphore(0)
fast_semaphore(c) == [m_count |-> c, m_semaphore |-> semaphore(0)]

\* a condition wait that does not look at m_done
cv_predicate_m(s) == s.m_count # 0

\* the predicate of m_cv.wait in semaphore::wait: m_count != 0 || m_done
cv_predicate(s) == s.m_count # 0 \/ s.m_done

\* a wait that returns true whenever the condition wait ends
semaphore_wait_result_m(s) == TRUE

\* semaphore::wait / wait_for after the condition wait:
\* wait_result = m_count != 0; if (wait_result) --m_count; return wait_result
semaphore_wait_result(s) == s.m_count # 0

semaphore_after_wait(s) ==
    IF semaphore_wait_result(s) THEN [s EXCEPT !.m_count = @ - 1] ELSE s

\* semaphore::post under the lock: ++m_count
semaphore_after_post(s) == [s EXCEPT !.m_count = @ + 1]

\* a post that wakes the inner semaphore also when nobody has decremented
post_wakes_inner_m(oldCount) == oldCount <= 0

\* fast_semaphore::post: if (oldCount < 0) m_semaphore.post()
post_wakes_inner(oldCount) == oldCount < 0

\* a wait that takes the counter from 0 to -1 and returns true
wait_parks_inner_m(oldCount) == oldCount < 0

\* fast_semaphore::waitWithPartialSpinning after fetch_sub:
\* if (oldCount <= 0) return m_semaphore.wait(); return true
wait_parks_inner(oldCount) == oldCount <= 0

\* tryWait / spin loop condition before the compare-exchange: oldCount > 0
try_condition(oldCount) == oldCount > 0

\* a compare-exchange that never fails
cas_succeeds_m(cur, oldCount) == TRUE

\* m_count.compare_exchange_strong(oldCount, oldCount - 1): succeeds iff the
\* current value still equals oldCount
cas_succeeds(cur, oldCount) == cur = oldCount

\* a compare-exchange that decrements whether or not the comparison succeeded
cas_store_m(cur, oldCount) == cur - 1

\* value of m_count after compare_exchange_strong(oldCount, oldCount - 1)
cas_store(cur, oldCount) == IF cas_succeeds(cur, oldCount) THEN oldCount - 1 ELSE cur

---------------------------------------------------------------------------
(* Threads *)

NoSem == <<"none", 0>>

\* a thread that is not running anything
thread(role) ==
    [role |-> role, pc |-> "idle", call |-> "none", sem |-> NoSem,
     oldCount |-> 0, spin |-> 0, last |-> <<>>, expect |-> "none",
     afterClose |-> FALSE,
     qop |-> "none", q |-> 0, expected |-> 0, item |-> 0,
     n |-> 0, home |-> 0, i |-> 0, todo |-> <<>>, got |-> <<>>]

\* pcs at which a thread is inside the inner semaphore's condition wait
InnerWaitPcs == {"in_wait", "in_parked"}

\* pcs of the spin loop and the decrement of waitWithPartialSpinning
SpinPcs == {"sp_load", "sp_cas", "fsub"}

\* entry point of a call on a fast_semaphore
fast_entry(call) ==
    CASE call = "post" -> "post_fa"
      [] call = "wait" -> "tw_load"
      [] call = "wait_for" -> "tw_load"
      [] call = "done" -> "in_done"

\* entry point of a call on a plain semaphore
plain_entry(call) ==
    CASE call = "post" -> "in_post"
      [] call = "wait" -> "in_wait"
      [] call = "wait_for" -> "in_waitfor"
      [] call = "done" -> "in_done"

\* SemSpec caller: the call returned res; keep <<call, result, what the
\* reference answered, whether it was issued after done() had returned>>
CallerReturn(r, res) ==
    [r EXCEPT !.pc = "idle", !.call = "none", !.sem = NoSem, !.oldCount = 0,
              !.spin = 0, !.last = <<r.call, res, r.expect, r.afterClose>>,
              !.expect = "none", !.afterClose = FALSE]

---------------------------------------------------------------------------
(* atomic_blocking_queue: entering and leaving its operations *)

\* the values of the template parameter Q_SIZE
Q_SIZES == {2 ^ k : k \in 0..QSizeLog}

\* the Q_SIZE of a queue object
Q_SIZE(queue) == Cardinality(DOMAIN queue.m_data)

\* static constexpr unsigned long Q_MASK = Q_SIZE - 1
Q_MASK(queue) == Q_SIZE(queue) - 1

\* bitwise and of two naturals
RECURSIVE BitAnd(_, _)
BitAnd(x, y) ==
    IF x = 0 \/ y = 0 THEN 0
    ELSE (IF x % 2 = 1 /\ y % 2 = 1 THEN 1 ELSE 0) + 2 * BitAnd(x \div 2, y \div 2)

\* every ticket in the first slot
slot_of_m(expected, queue) == 0

\* the slot of a ticket: expected & Q_MASK
slot_of(expected, queue) == BitAnd(expected, Q_MASK(queue))

\* atomic_blocking_queue(): queue_impl with all four indices 0 and raw
\* storage (0 marks a slot that holds no constructed element)
atomic_blocking_queue(size) ==
    [m_pushIndex |-> 0, m_popIndex |-> 0, m_pushingIndex |-> 0, m_popingIndex |-> 0,
     m_data |-> [k \in 0..(size - 1) |-> 0], m_done |-> FALSE, ub |-> FALSE]

\* the locals of a finished semaphore call dropped
sem_left(r) == [r EXCEPT !.call = "none", !.sem = NoSem, !.oldCount = 0, !.spin = 0]

\* push / try_push of item on queue q: m_openSlots.wait() or
\* m_openSlots.wait_for(0s) comes first
enter_push(r, op, q, item) ==
    [r EXCEPT !.qop = op, !.q = q, !.item = item, !.expected = 0,
              !.sem = <<"open", q>>, !.pc = "tw_load",
              !.call = IF op = "push" THEN "wait" ELSE "wait_for"]

\* pop / try_pop on queue q: m_fullSlots.wait() or m_fullSlots.wait_for(0s)
enter_pop(r, op, q) ==
    [r EXCEPT !.qop = op, !.q = q, !.item = 0, !.expected = 0,
              !.sem = <<"full", q>>, !.pc = "tw_load",
              !.call = IF op = "pop" THEN "wait" ELSE "wait_for"]

\* done() on queue q
enter_done(r, q) == [r EXCEPT !.qop = "done", !.q = q, !.pc = "q_done"]

\* the locals of a finished queue call dropped (item is the caller's)
queue_left(r) == [sem_left(r) EXCEPT !.qop = "none", !.q = 0, !.expected = 0]

\* QueueSpec producer: try_push that failed leaves the item to be offered
\* again; otherwise the producer goes on to its next item
ProducerReturn(r, res) ==
    [queue_left(r) EXCEPT !.pc = "idle", !.item = 0,
        !.last = <<r.qop, res>>,
        !.todo = IF r.qop = "try_push" /\ ~res THEN @ ELSE Tail(@)]

\* QueueSpec consumer: keeps what it popped, in order
ConsumerReturn(r, res) ==
    [queue_left(r) EXCEPT !.pc = "idle", !.item = 0,
        !.last = <<r.qop, res>>,
        !.got = IF res THEN Append(@, r.item) ELSE @]

\* QueueSpec closer: done() returned
CloserReturn(r, res) == [queue_left(r) EXCEPT !.pc = "idle", !.last = <<r.qop, res>>]

\* thread_pool: inline static const unsigned int K = 2
K == 2

\* thread_pool::m_count, the number of queues
pool_m_count == Cardinality(DOMAIN queues)

\* worker lambda, top of while (true): Proc f; the first try_pop of the
\* for loop, on m_queues[(i + 0) % m_count]
worker_loop(r) ==
    enter_pop([r EXCEPT !.n = 0], "try_pop", (r.home + 0) % pool_m_count)

\* a worker that gives up when the for loop found nothing
worker_after_tries_m(r) ==
    IF r.item = 0 THEN [queue_left(r) EXCEPT !.pc = "w_exit"]
    ELSE [queue_left(r) EXCEPT !.pc = "w_exec"]

\* worker lambda after the for loop: if (!f) m_queues[i].pop(f); otherwise
\* f is run
worker_after_tries(r) ==
    IF r.item = 0 THEN enter_pop(r, "pop", r.home)
    ELSE [queue_left(r) EXCEPT !.pc = "w_exec"]

\* worker lambda: a try_pop or the pop returned res, f being r.item
WorkerReturn(r, res) ==
    IF r.qop = "try_pop"
    THEN IF res THEN worker_after_tries(r)
         ELSE IF r.n + 1 < pool_m_count * K
              THEN enter_pop([r EXCEPT !.n = @ + 1], "try_pop",
                             (r.home + r.n + 1) % pool_m_count)
              ELSE worker_after_tries(r)
    ELSE \* if (!f) break;  otherwise f is run
         IF r.item = 0 THEN [queue_left(r) EXCEPT !.pc = "w_exit"]
         ELSE [queue_left(r) EXCEPT !.pc = "w_exec"]

\* enqueue_work returns; got notes the task and the queue when the push
\* was carried out
enqueue_returns(r, landed) ==
    [queue_left(r) EXCEPT !.pc = "idle", !.item = 0, !.n = 0, !.i = 0,
        !.todo = Tail(@),
        !.got = IF landed THEN Append(@, <<r.item, r.q>>) ELSE @]

\* enqueue_work: a try_push or the push returned res
ClientReturn(r, res) ==
    IF r.qop = "try_push"
    THEN IF res THEN enqueue_returns(r, TRUE)
         ELSE IF r.n + 1 < pool_m_count * K
              THEN enter_push([r EXCEPT !.n = @ + 1], "try_push",
                              (r.i + r.n + 1) % pool_m_count, r.item)
              ELSE enter_push(r, "push", r.i % pool_m_count, r.item)
    ELSE enqueue_returns(r, res)

\* ~thread_pool: queue.done() returned; the next queue, or the joins
OwnerReturn(r, res) ==
    IF r.n + 1 < pool_m_count
    THEN enter_done([r EXCEPT !.n = @ + 1], r.n + 1)
    ELSE [queue_left(r) EXCEPT !.pc = "d_join"]

\* return from an atomic_blocking_queue call to whoever made it
QueueReturn(r, res) ==
    CASE r.role = "producer" -> ProducerReturn(r, res)
      [] r.role = "consumer" -> ConsumerReturn(r, res)
      [] r.role = "closer" -> CloserReturn(r, res)
      [] r.role = "worker" -> WorkerReturn(r, res)
      [] r.role = "client" -> ClientReturn(r, res)
      [] r.role = "owner" -> OwnerReturn(r, res)

\* a blocking push that goes on whatever its wait returned
push_proceeds_m(r, res) == res \/ r.qop = "push"

\* push and try_push: if (!m_openSlots.wait()) return;  the call goes on
\* to queue_impl.push only when the wait returned true
push_proceeds(r, res) == res

\* a semaphore call made by a queue operation returned res
QueueContinue(r, res) ==
    CASE r.qop \in {"push", "try_push"} ->
            IF r.sem[1] = "open"
            THEN \* if (!m_openSlots.wait()) return;  else queue_impl.push(item)
                 IF push_proceeds(r, res)
                 THEN [sem_left(r) EXCEPT !.pc = "qpush_ticket"]
                 ELSE QueueReturn(r, FALSE)
            ELSE \* m_fullSlots.post() returned
                 QueueReturn(r, TRUE)
      [] r.qop \in {"pop", "try_pop"} ->
            IF r.sem[1] = "full"
            THEN \* if (!m_fullSlots.wait()) return false;  else queue_impl.pop(item)
                 IF res THEN [sem_left(r) EXCEPT !.pc = "qpop_ticket"]
                 ELSE QueueReturn(r, FALSE)
            ELSE \* m_openSlots.post() returned
                 QueueReturn(r, TRUE)
      [] r.qop = "done" ->
            IF r.sem[1] = "open"
            THEN \* m_openSlots.done() returned; m_fullSlots.done()
                 [r EXCEPT !.sem = <<"full", r.q>>, !.pc = "in_done"]
            ELSE QueueReturn(r, TRUE)

\* return from a semaphore-level call to whoever made it
SemReturn(r, res) ==
    IF r.qop = "none" THEN CallerReturn(r, res) ELSE QueueContinue(r, res)

\* while (spin--) of waitWithPartialSpinning: next iteration or fall through
\* to the fetch_sub
spin_next(r) ==
    IF r.spin > 0 THEN [r EXCEPT !.pc = "sp_load", !.spin = @ - 1, !.oldCount = 0]
    ELSE [r EXCEPT !.pc = "fsub", !.oldCount = 0]

\* fast_semaphore::wait: if (!tryWait()) return waitWithPartialSpinning();
\* wait_for: return tryWait()
try_failed(r) ==
    IF r.call = "wait" THEN spin_next([r EXCEPT !.spin = SpinBudget])
    ELSE SemReturn(r, FALSE)

---------------------------------------------------------------------------
(* fast_semaphore steps of thread t on semaphore thr[t].sem *)

\* tryWait: int oldCount = m_count.load(relaxed)
tryWait_load(t) ==
    /\ thr[t].pc = "tw_load"
    /\ LET r == thr[t]
           c == sems[r.sem].m_count
       IN thr' = [thr EXCEPT ![t] =
                    IF try_condition(c) THEN [r EXCEPT !.pc = "tw_cas", !.oldCount = c]
                    ELSE try_failed(r)]
    /\ UNCHANGED sems

\* tryWait: m_count.compare_exchange_strong(oldCount, oldCount - 1, acquire)
tryWait_cas(t) ==
    /\ thr[t].pc = "tw_cas"
    /\ LET r == thr[t]
           c == sems[r.sem].m_count
       IN /\ sems' = [sems EXCEPT ![r.sem].m_count = cas_store(c, r.oldCount)]
          /\ thr' = [thr EXCEPT ![t] =
                       IF cas_succeeds(c, r.oldCount) THEN SemReturn(r, TRUE)
                       ELSE try_failed(r)]

\* waitWithPartialSpinning, spin loop: oldCount = m_count.load(relaxed)
spin_load(t) ==
    /\ thr[t].pc = "sp_load"
    /\ LET r == thr[t]
           c == sems[r.sem].m_count
       IN thr' = [thr EXCEPT ![t] =
                    IF try_condition(c) THEN [r EXCEPT !.pc = "sp_cas", !.oldCount = c]
                    ELSE spin_next(r)]
    /\ UNCHANGED sems

\* waitWithPartialSpinning, spin loop: compare_exchange_strong
spin_cas(t) ==
    /\ thr[t].pc = "sp_cas"
    /\ LET r == thr[t]
           c == sems[r.sem].m_count
       IN /\ sems' = [sems EXCEPT ![r.sem].m_count = cas_store(c, r.oldCount)]
          /\ thr' = [thr EXCEPT ![t] =
                       IF cas_succeeds(c, r.oldCount) THEN SemReturn(r, TRUE)
                       ELSE spin_next(r)]

\* waitWithPartialSpinning: oldCount = m_count.fetch_sub(1, acquire)
wait_fetch_sub(t) ==
    /\ thr[t].pc = "fsub"
    /\ LET r == thr[t]
           c == sems[r.sem].m_count
       IN /\ sems' = [sems EXCEPT ![r.sem].m_count = c - 1]
          /\ thr' = [thr EXCEPT ![t] =
                       IF wait_parks_inner(c) THEN [r EXCEPT !.pc = "in_wait"]
                       ELSE SemReturn(r, TRUE)]

\* fast_semaphore::post: oldCount = m_count.fetch_add(1, release)
post_fetch_add(t) ==
    /\ thr[t].pc = "post_fa"
    /\ LET r == thr[t]
           c == sems[r.sem].m_count
       IN /\ sems' = [sems EXCEPT ![r.sem].m_count = c + 1]
          /\ thr' = [thr EXCEPT ![t] =
                       IF post_wakes_inner(c) THEN [r EXCEPT !.pc = "in_post"]
                       ELSE SemReturn(r, TRUE)]

---------------------------------------------------------------------------
(* semaphore steps (the inner m_semaphore of thr[t].sem) *)

\* semaphore::wait: lock; m_cv.wait(lock, pred); take the result, or park
semaphore_wait(t) ==
    /\ thr[t].pc = "in_wait"
    /\ LET r == thr[t]
           s == sems[r.sem].m_semaphore
       IN IF cv_predicate(s)
          THEN /\ sems' = [sems EXCEPT ![r.sem].m_semaphore = semaphore_after_wait(s)]
               /\ thr' = [thr EXCEPT ![t] = SemReturn(r, semaphore_wait_result(s))]
          ELSE /\ thr' = [thr EXCEPT ![t].pc = "in_parked"]
               /\ UNCHANGED sems

\* semaphore::wait_for with a zero duration: the predicate is evaluated, the
\* timed wait expires at once, and the result is taken under the lock
semaphore_wait_for(t) ==
    /\ thr[t].pc = "in_waitfor"
    /\ LET r == thr[t]
           s == sems[r.sem].m_semaphore
       IN /\ sems' = [sems EXCEPT ![r.sem].m_semaphore = semaphore_after_wait(s)]
          /\ thr' = [thr EXCEPT ![t] = SemReturn(r, semaphore_wait_result(s))]

\* semaphore::post: { lock; ++m_count; }
semaphore_post(t) ==
    /\ thr[t].pc = "in_post"
    /\ LET r == thr[t]
           s == sems[r.sem].m_semaphore
       IN /\ sems' = [sems EXCEPT ![r.sem].m_semaphore = semaphore_after_post(s)]
          /\ thr' = [thr EXCEPT ![t].pc = "in_notify"]

\* threads blocked in m_cv of semaphore id
Parked(id) == {u \in DOMAIN thr : thr[u].pc = "in_parked" /\ thr[u].sem = id}

\* a notify_one that unblocks nobody
semaphore_notify_one_m(t) ==
    /\ thr[t].pc = "in_notify"
    /\ thr' = [thr EXCEPT ![t] = SemReturn(@, TRUE)]
    /\ UNCHANGED sems

\* semaphore::post: m_cv.notify_one() -- unblocks one waiting thread, if any
semaphore_notify_one(t) ==
    /\ thr[t].pc = "in_notify"
    /\ LET r == thr[t]
       IN IF Parked(r.sem) = {}
          THEN thr' = [thr EXCEPT ![t] = SemReturn(r, TRUE)]
          ELSE \E u \in Parked(r.sem) :
                  thr' = [thr EXCEPT ![t] = SemReturn(r, TRUE), ![u].pc = "in_wait"]
    /\ UNCHANGED sems

\* semaphore::done: { lock; m_done = true; }
semaphore_done(t) ==
    /\ thr[t].pc = "in_done"
    /\ LET r == thr[t]
       IN /\ sems' = [sems EXCEPT ![r.sem].m_semaphore.m_done = TRUE]
          /\ thr' = [thr EXCEPT ![t].pc = "in_notify_all"]

\* a notify_all that unblocks nobody
semaphore_notify_all_m(t) ==
    /\ thr[t].pc = "in_notify_all"
    /\ thr' = [thr EXCEPT ![t] = SemReturn(@, TRUE)]
    /\ UNCHANGED sems

\* semaphore::done: m_cv.notify_all()
semaphore_notify_all(t) ==
    /\ thr[t].pc = "in_notify_all"
    /\ LET r == thr[t]
       IN thr' = [u \in DOMAIN thr |->
                    IF u = t THEN SemReturn(r, TRUE)
                    ELSE IF u \in Parked(r.sem) THEN [thr[u] EXCEPT !.pc = "in_wait"]
                    ELSE thr[u]]
    /\ UNCHANGED sems

\* a condition variable may unblock a waiter spuriously; it re-evaluates the
\* predicate under the lock
spurious_wakeup(t) ==
    /\ thr[t].pc = "in_parked"
    /\ thr' = [thr EXCEPT ![t].pc = "in_wait"]
    /\ UNCHANGED sems

---------------------------------------------------------------------------
(* atomic_blocking_queue_impl::push / pop and atomic_blocking_queue::done *)

\* impl push: const auto expected = m_pushingIndex.fetch_add(1)
push_ticket(t) ==
    /\ thr[t].pc = "qpush_ticket"
    /\ LET r == thr[t]
           e == queues[r.q].m_pushingIndex
       IN /\ queues' = [queues EXCEPT ![r.q].m_pushingIndex = e + 1]
          /\ pushed' = [pushed EXCEPT ![r.q] = Append(@, r.item)]
          /\ thr' = [thr EXCEPT ![t] = [r EXCEPT !.pc = "qpush_write", !.expected = e]]
    /\ UNCHANGED sems

\* impl push: new (m_data + (expected & Q_MASK)) T(item); constructing over
\* an element that has not been destroyed is undefined
push_write(t) ==
    /\ thr[t].pc = "qpush_write"
    /\ LET r == thr[t]
           k == slot_of(r.expected, queues[r.q])
       IN /\ queues' = [queues EXCEPT ![r.q].m_data[k] = r.item,
                                      ![r.q].ub = @ \/ queues[r.q].m_data[k] # 0]
          /\ thr' = [thr EXCEPT ![t].pc = "qpush_spin"]
    /\ UNCHANGED <<sems, pushed>>

\* a commit spin that lets every ticket through
commit_turn_m(expected, index) == TRUE

\* a commit spin that lets a ticket through one turn early
commit_turn_early_m(expected, index) == expected <= index + 1

\* the condition that ends the commit spin: !(expected != m_pushIndex)
commit_turn(expected, index) == expected = index

\* impl push: while (expected != m_pushIndex) yield();
push_spin(t) ==
    /\ thr[t].pc = "qpush_spin"
    /\ commit_turn(thr[t].expected, queues[thr[t].q].m_pushIndex)
    /\ thr' = [thr EXCEPT ![t].pc = "qpush_commit"]
    /\ UNCHANGED <<sems, queues, pushed>>

\* impl push: m_pushIndex++; then m_fullSlots.post()
push_commit(t) ==
    /\ thr[t].pc = "qpush_commit"
    /\ LET r == thr[t]
       IN /\ queues' = [queues EXCEPT ![r.q].m_pushIndex = @ + 1]
          /\ thr' = [thr EXCEPT ![t] =
                [r EXCEPT !.pc = "post_fa", !.call = "post", !.sem = <<"full", r.q>>]]
    /\ UNCHANGED <<sems, pushed>>

\* impl pop: const auto expected = m_popingIndex.fetch_add(1)
pop_ticket(t) ==
    /\ thr[t].pc = "qpop_ticket"
    /\ LET r == thr[t]
           e == queues[r.q].m_popingIndex
       IN /\ queues' = [queues EXCEPT ![r.q].m_popingIndex = e + 1]
          /\ thr' = [thr EXCEPT ![t] = [r EXCEPT !.pc = "qpop_read", !.expected = e]]
    /\ UNCHANGED <<sems, pushed>>

\* impl pop: item = std::move(m_data[expected & Q_MASK]); m_data[..].~T();
\* moving out of a slot that holds no element is undefined
pop_read(t) ==
    /\ thr[t].pc = "qpop_read"
    /\ LET r == thr[t]
           k == slot_of(r.expected, queues[r.q])
       IN /\ queues' = [queues EXCEPT ![r.q].m_data[k] = 0,
                                      ![r.q].ub = @ \/ queues[r.q].m_data[k] = 0]
          /\ thr' = [thr EXCEPT ![t] =
                [r EXCEPT !.pc = "qpop_spin", !.item = queues[r.q].m_data[k]]]
    /\ UNCHANGED <<sems, pushed>>

\* impl pop: while (expected != m_popIndex) yield();
pop_spin(t) ==
    /\ thr[t].pc = "qpop_spin"
    /\ commit_turn(thr[t].expected, queues[thr[t].q].m_popIndex)
    /\ thr' = [thr EXCEPT ![t].pc = "qpop_commit"]
    /\ UNCHANGED <<sems, queues, pushed>>

\* impl pop: m_popIndex++; then m_openSlots.post()
pop_commit(t) ==
    /\ thr[t].pc = "qpop_commit"
    /\ LET r == thr[t]
       IN /\ queues' = [queues EXCEPT ![r.q].m_popIndex = @ + 1]
          /\ thr' = [thr EXCEPT ![t] =
                [r EXCEPT !.pc = "post_fa", !.call = "post", !.sem = <<"open", r.q>>]]
    /\ UNCHANGED <<sems, pushed>>

\* atomic_blocking_queue::done: m_done = true; then m_openSlots.done()
queue_done(t) ==
    /\ thr[t].pc = "q_done"
    /\ LET r == thr[t]
       IN /\ queues' = [queues EXCEPT ![r.q].m_done = TRUE]
          /\ thr' = [thr EXCEPT ![t] =
                [r EXCEPT !.pc = "in_done", !.call = "done", !.sem = <<"open", r.q>>]]
    /\ UNCHANGED <<sems, pushed>>

---------------------------------------------------------------------------
(* SemSpec: NCallers threads call post / wait / wait_for(0) / done on one  *)
(* semaphore or one fast_semaphore constructed with init_count             *)

TheSem == <<"sem", 0>>

Callers == 1..NCallers

CallNames == {"post", "wait", "wait_for", "done"}

B2S(b) == IF b THEN "true" ELSE "false"

\* the last call thread u returned from, or "none"
LastCall(u) == IF thr[u].last = <<>> THEN "none" ELSE thr[u].last[1]

\* what a plain semaphore in state s answers to a call made on its own:
\* "blocks" when wait would not return
ref_answer(s, c) ==
    CASE c = "wait" -> IF cv_predicate(s) THEN B2S(semaphore_wait_result(s)) ELSE "blocks"
      [] c = "wait_for" -> B2S(semaphore_wait_result(s))
      [] OTHER -> "true"

\* the plain semaphore after that call
ref_after(s, c) ==
    CASE c = "wait" -> IF cv_predicate(s) THEN semaphore_after_wait(s) ELSE s
      [] c = "wait_for" -> semaphore_after_wait(s)
      [] c = "post" -> semaphore_after_post(s)
      [] c = "done" -> [s EXCEPT !.m_done = TRUE]

\* posts a waiter could still consume from the object under test
Tokens == IF sut = "semaphore" THEN sems[TheSem].m_semaphore.m_count
          ELSE (IF sems[TheSem].m_count > 0 THEN sems[TheSem].m_count ELSE 0)
               + sems[TheSem].m_semaphore.m_count

\* the waiters of a blocking wait: parked in the condition wait of a
\* semaphore; on a fast_semaphore also those in the spin loop and those that
\* have decremented m_count and are entering the inner wait
Waiting ==
    {u \in DOMAIN thr :
        /\ thr[u].call = "wait"
        /\ \/ thr[u].pc = "in_parked"
           \/ sut = "fast_semaphore" /\ thr[u].pc \in SpinPcs \cup {"in_wait"}}

TotalIssued == tally.post + tally.wait + tally.wait_for + tally.done

SemInit ==
    /\ queues = <<>> /\ m_index = 0 /\ executed = <<>> /\ pushed = <<>> /\ pool = <<>>
    /\ ring = <<>> /\ build = <<>> /\ low = {} /\ dtor = <<>>
    /\ sut \in {"semaphore", "fast_semaphore"}
    /\ init_count \in 0..MaxInit
    /\ sems = [id \in {TheSem} |->
                 IF sut = "semaphore"
                 THEN [m_count |-> 0, m_semaphore |-> semaphore(init_count)]
                 ELSE fast_semaphore(init_count)]
    /\ thr = [t \in Callers |-> thread("caller")]
    /\ ref = semaphore(init_count)
    /\ seq = TRUE
    /\ closing = [called |-> FALSE, returned |-> FALSE, waiters |-> {},
                  pending |-> FALSE, posts |-> 0, quiet |-> FALSE]
    /\ tally = [post |-> 0, wait |-> 0, wait_for |-> 0, done |-> 0,
                wait_true |-> 0, wait_false |-> 0, try_true |-> 0]

\* a thread calls post(), wait(), wait_for(0s) or done() on the object
\* (the threads are interchangeable: thread t+1 makes its first call after
\* thread t has made one)
Call(t, c) ==
    /\ thr[t].pc = "idle"
    /\ TotalIssued < MaxCalls
    /\ t > 1 => thr[t - 1].last # <<>> \/ thr[t - 1].pc # "idle"
    /\ LET alone == \A u \in DOMAIN thr : thr[u].pc = "idle"
       IN /\ seq' = (seq /\ alone)
          /\ ref' = IF seq /\ alone THEN ref_after(ref, c) ELSE ref
          /\ thr' = [thr EXCEPT ![t] =
                [@ EXCEPT !.call = c, !.sem = TheSem, !.last = <<>>,
                          !.pc = IF sut = "semaphore" THEN plain_entry(c) ELSE fast_entry(c),
                          !.expect = IF seq /\ alone THEN ref_answer(ref, c) ELSE "none",
                          !.afterClose = closing.returned]]
    /\ closing' = IF c = "done" /\ ~closing.called
                  THEN [closing EXCEPT !.called = TRUE,
                        !.waiters = Waiting,
                        !.pending = Tokens > 0 \/ \E u \in DOMAIN thr : thr[u].call = "post",
                        !.posts = tally.post]
                  ELSE [closing EXCEPT !.waiters = @ \ {t}]
    /\ tally' = [tally EXCEPT ![c] = @ + 1]
    /\ UNCHANGED <<sems, sut, init_count, queues, m_index, executed, pushed, pool,
                   ring, build, low, dtor>>

\* thread u returns from call c in this step
Returns(u, c) == thr[u].call = c /\ thr'[u].call = "none"

\* bookkeeping of a step inside a call: note when done() returns for the
\* first time (and whether the object then holds no post and none is in
\* progress), and count the blocking waits that return and the wait_for
\* calls that return true
SemGhost ==
    /\ UNCHANGED <<sut, init_count, ref, seq, queues, m_index, executed, pushed, pool,
                   ring, build, low, dtor>>
    /\ closing' =
         IF ~closing.returned /\ \E u \in DOMAIN thr : Returns(u, "done")
         THEN [closing EXCEPT !.returned = TRUE,
                 !.quiet = Tokens' = 0 /\ \A u \in DOMAIN thr : thr'[u].call # "post"]
         ELSE closing
    /\ tally' =
         IF \E u \in DOMAIN thr : Returns(u, "wait")
         THEN LET u == CHOOSE u \in DOMAIN thr : Returns(u, "wait")
              IN IF thr'[u].last[2] THEN [tally EXCEPT !.wait_true = @ + 1]
                 ELSE [tally EXCEPT !.wait_false = @ + 1]
         ELSE IF \E u \in DOMAIN thr : Returns(u, "wait_for") /\ thr'[u].last[2]
         THEN [tally EXCEPT !.try_true = @ + 1]
         ELSE tally

\* one step of thread t inside a semaphore call
SemStep(t) ==
    \/ tryWait_load(t) /\ SemGhost
    \/ tryWait_cas(t) /\ SemGhost
    \/ spin_load(t) /\ SemGhost
    \/ spin_cas(t) /\ SemGhost
    \/ wait_fetch_sub(t) /\ SemGhost
    \/ post_fetch_add(t) /\ SemGhost
    \/ semaphore_wait(t) /\ SemGhost
    \/ semaphore_wait_for(t) /\ SemGhost
    \/ semaphore_post(t) /\ SemGhost
    \/ semaphore_notify_one(t) /\ SemGhost
    \/ semaphore_done(t) /\ SemGhost
    \/ semaphore_notify_all(t) /\ SemGhost

SemNext ==
    \/ \E t \in Callers, c \in CallNames : Call(t, c)
    \/ \E t \in Callers : SemStep(t)
    \/ \E t \in Callers : spurious_wakeup(t) /\ SemGhost

SemSpec == SemInit /\ [][SemNext]_vars

\* the scheduler runs every thread that can take a step; a condition
\* variable is not obliged to wake anybody spuriously
FairSemSpec == SemSpec /\ \A t \in Callers : WF_vars(SemStep(t))

---------------------------------------------------------------------------
(* Claims about semaphore and fast_semaphore *)

Min(a, b) == IF a < b THEN a ELSE b

\* no call is in progress except blocking waits parked in the condition wait
Quiescent == \A u \in DOMAIN thr : thr[u].pc \in {"idle", "in_parked"}

\* C5: Signal counting.  With only post and blocking wait calls and no
\* close, whenever the object is quiescent exactly min(c + P, W) of the W
\* waits issued have returned true and none has returned false (the rest
\* are parked).
C5_SignalCounting ==
    (Quiescent /\ tally.done = 0 /\ tally.wait_for = 0)
        => /\ tally.wait_true = Min(init_count + tally.post, tally.wait)
           /\ tally.wait_false = 0

C5_Witness ==
    /\ sut = "fast_semaphore" /\ Quiescent
    /\ tally.done = 0 /\ tally.wait_for = 0
    /\ tally.wait = 3 /\ tally.post = 1 /\ tally.wait_true = 1
    /\ \E u \in DOMAIN thr : thr[u].pc = "in_parked"

\* thread u has returned from the call it was making, with result res
Returned(u, c, res) ==
    thr[u].pc = "idle" /\ LastCall(u) = c /\ thr[u].last[2] = res

\* C6 as stated: a waiter that was inside a blocking wait when done() was
\* called returns false.
C6_ParkedWaitersReturnFalse ==
    \A u \in closing.waiters : thr[u].pc = "idle" => thr[u].last[2] = FALSE

\* C6 (amended): after done() is called every waiter that was inside a
\* blocking wait at that moment eventually returns; it returns false when
\* the object held no post and no post was in progress at that moment and
\* none has been issued since (otherwise it may consume a post and return
\* true).
C6_WakeUpOnClose ==
    /\ closing.called ~> (\A u \in closing.waiters : thr[u].pc = "idle")
    /\ [](\A u \in closing.waiters :
            (thr[u].pc = "idle" /\ ~closing.pending /\ tally.post = closing.posts)
                => thr[u].last[2] = FALSE)

C6_Witness ==
    /\ sut = "fast_semaphore"
    /\ \E u \in closing.waiters : Returned(u, "wait", FALSE)
    /\ \E u \in closing.waiters : Returned(u, "wait", TRUE)

\* C7: a post made after closure is lost.  Once done() has returned on an
\* object that then held no post (and none was in progress), no wait or
\* wait_for(0) issued afterwards returns true.
C7_PostAfterCloseIsLost ==
    \A u \in DOMAIN thr :
        (thr[u].pc = "idle" /\ LastCall(u) \in {"wait", "wait_for"}
           /\ thr[u].last[4] /\ closing.quiet)
            => thr[u].last[2] = FALSE

\* C8: No spurious decrement.  A step of tryWait (called from wait_for or
\* from wait) never parks the thread on the inner semaphore; it returns true
\* only by changing m_count from a value v > 0 to v - 1, and otherwise it
\* leaves m_count and the inner semaphore as they were.
C8_NoSpuriousDecrement ==
    [][\A u \in Callers :
         (sut = "fast_semaphore" /\ thr[u].pc \in {"tw_load", "tw_cas"}
            /\ thr'[u] # thr[u])
          => /\ thr'[u].pc \notin InnerWaitPcs
             /\ thr[u].call = "wait_for" => thr'[u].pc \in {"tw_cas", "idle"}
             /\ IF thr'[u].pc = "idle" /\ thr'[u].last[2]
                THEN /\ sems[TheSem].m_count > 0
                     /\ sems' = [sems EXCEPT ![TheSem].m_count = @ - 1]
                ELSE sems' = sems]_vars

C8_Witness ==
    /\ sut = "fast_semaphore"
    /\ sems[TheSem].m_count > 0
    /\ \E u \in DOMAIN thr : Returned(u, "wait_for", FALSE)
    /\ \E u \in DOMAIN thr : Returned(u, "wait_for", TRUE)

\* C9: same return semantics.  In a history whose calls do not overlap,
\* every call on a fast_semaphore returns what a semaphore with the same
\* initial count returns to the same sequence of calls.
C9_SameReturnSemantics ==
    \A u \in DOMAIN thr :
        (sut = "fast_semaphore" /\ seq /\ thr[u].pc = "idle" /\ thr[u].last # <<>>)
            => thr[u].last[3] = B2S(thr[u].last[2])

\* the plain semaphore itself answers as the reference does
RefIsSemaphore ==
    \A u \in DOMAIN thr :
        (sut = "semaphore" /\ seq /\ thr[u].pc = "idle" /\ thr[u].last # <<>>)
            => thr[u].last[3] = B2S(thr[u].last[2])

---------------------------------------------------------------------------
(* QueueSpec: up to NProducers producers push MaxItems items on one       *)
(* atomic_blocking_queue<T, fast_semaphore>, up to NConsumers consumers    *)
(* pop from it; with fewer than MaxParties of them a closer calls done()  *)
(* at any moment                                                           *)

Closer == 0

\* the items of producer p of np, in the order in which it pushes them:
\* the MaxItems items are dealt round to the producers
ItemsOf(p, np) ==
    [k \in 1..((MaxItems + np - p) \div np) |-> 10 * p + k]

\* queues that let one push more than Q_SIZE through
queue_sems_m(qs, size) ==
    [id \in ({"open", "full"} \X qs) |->
        IF id[1] = "open" THEN fast_semaphore(size + 1) ELSE fast_semaphore(0)]

\* m_openSlots(Q_SIZE), m_fullSlots(0) of queue q
queue_sems(qs, size) ==
    [id \in ({"open", "full"} \X qs) |->
        IF id[1] = "open" THEN fast_semaphore(size) ELSE fast_semaphore(0)]

QueueInit ==
    /\ \E np \in 1..NProducers, nc \in 1..NConsumers :
          /\ np + nc <= MaxParties
          /\ thr = [t \in (IF np + nc < MaxParties THEN 0 ELSE 1)..(np + nc) |->
                      IF t = Closer THEN thread("closer")
                      ELSE IF t <= np
                           THEN [thread("producer") EXCEPT !.todo = ItemsOf(t, np)]
                           ELSE thread("consumer")]
    /\ \E size \in Q_SIZES :
          /\ queues = [q \in {0} |-> atomic_blocking_queue(size)]
          /\ sems = queue_sems({0}, size)
    /\ pushed = [q \in {0} |-> <<>>]
    /\ m_index = 0 /\ executed = <<>> /\ pool = <<>>
    /\ sut = "fast_semaphore" /\ init_count = 0
    /\ ring = <<>> /\ build = <<>> /\ low = {} /\ dtor = <<>>
    /\ ref = semaphore(0) /\ seq = TRUE
    /\ closing = [called |-> FALSE, returned |-> FALSE, waiters |-> {},
                  pending |-> FALSE, posts |-> 0, quiet |-> FALSE]
    /\ tally = [post |-> 0, wait |-> 0, wait_for |-> 0, done |-> 0,
                wait_true |-> 0, wait_false |-> 0, try_true |-> 0]

QProducers == {t \in DOMAIN thr : thr[t].role = "producer"}

QConsumers == {t \in DOMAIN thr : thr[t].role = "consumer"}

\* what QueueSpec and PoolSpec never touch
NoSemGhost == UNCHANGED <<sut, init_count, ref, seq, closing, tally, ring, build>>

\* the threads inside the wait_for of a try_push or try_pop whose counter
\* is, or has been since the call began, zero or negative
MetNonPositive ==
    {t \in DOMAIN thr :
        /\ thr'[t].call = "wait_for"
        /\ \/ sems'[thr'[t].sem].m_count <= 0
           \/ t \in low /\ thr[t].call = "wait_for"}

QueueGhost ==
    /\ NoSemGhost /\ UNCHANGED <<m_index, executed, pool>>
    /\ low' = MetNonPositive
    /\ UNCHANGED dtor

\* a producer calls push(item) or try_push(item) with its next item
ProducerCall(t, op) ==
    /\ thr[t].role = "producer" /\ thr[t].pc = "idle" /\ thr[t].todo # <<>>
    /\ thr' = [thr EXCEPT ![t] = enter_push(@, op, 0, Head(@.todo))]
    /\ UNCHANGED <<sems, queues, pushed>>

\* a consumer calls pop(item) or try_pop(item); it stops once a blocking
\* pop has told it that the queue is closed
ConsumerCall(t, op) ==
    /\ thr[t].role = "consumer" /\ thr[t].pc = "idle"
    /\ thr[t].last # <<"pop", FALSE>>
    /\ thr' = [thr EXCEPT ![t] = enter_pop(@, op, 0)]
    /\ UNCHANGED <<sems, queues, pushed>>

\* the closer calls done(), once
CloserCall(t) ==
    /\ thr[t].role = "closer" /\ thr[t].pc = "idle" /\ thr[t].last = <<>>
    /\ thr' = [thr EXCEPT ![t] = enter_done(@, 0)]
    /\ UNCHANGED <<sems, queues, pushed>>

\* one step of thread t inside a queue call
QueueStep(t) ==
    \/ tryWait_load(t) /\ UNCHANGED <<queues, pushed>> /\ QueueGhost
    \/ tryWait_cas(t) /\ UNCHANGED <<queues, pushed>> /\ QueueGhost
    \/ spin_load(t) /\ UNCHANGED <<queues, pushed>> /\ QueueGhost
    \/ spin_cas(t) /\ UNCHANGED <<queues, pushed>> /\ QueueGhost
    \/ wait_fetch_sub(t) /\ UNCHANGED <<queues, pushed>> /\ QueueGhost
    \/ post_fetch_add(t) /\ UNCHANGED <<queues, pushed>> /\ QueueGhost
    \/ semaphore_wait(t) /\ UNCHANGED <<queues, pushed>> /\ QueueGhost
    \/ semaphore_post(t) /\ UNCHANGED <<queues, pushed>> /\ QueueGhost
    \/ semaphore_notify_one(t) /\ UNCHANGED <<queues, pushed>> /\ QueueGhost
    \/ semaphore_done(t) /\ UNCHANGED <<queues, pushed>> /\ QueueGhost
    \/ semaphore_notify_all(t) /\ UNCHANGED <<queues, pushed>> /\ QueueGhost
    \/ push_ticket(t) /\ QueueGhost
    \/ push_write(t) /\ QueueGhost
    \/ push_spin(t) /\ QueueGhost
    \/ push_commit(t) /\ QueueGhost
    \/ pop_ticket(t) /\ QueueGhost
    \/ pop_read(t) /\ QueueGhost
    \/ pop_spin(t) /\ QueueGhost
    \/ pop_commit(t) /\ QueueGhost
    \/ queue_done(t) /\ QueueGhost

QueueNext ==
    \/ \E t \in DOMAIN thr, op \in {"push", "try_push"} : ProducerCall(t, op) /\ QueueGhost
    \/ \E t \in DOMAIN thr, op \in {"pop", "try_pop"} : ConsumerCall(t, op) /\ QueueGhost
    \/ \E t \in DOMAIN thr : CloserCall(t) /\ QueueGhost
    \/ \E t \in DOMAIN thr : QueueStep(t)
    \/ \E t \in DOMAIN thr :
          spurious_wakeup(t) /\ UNCHANGED <<queues, pushed>> /\ QueueGhost

QueueSpec == QueueInit /\ [][QueueNext]_vars

---------------------------------------------------------------------------
(* thread_pool<atomic_blocking_queue, fast_semaphore> *)

\* worker lambda: f()
worker_exec(t) ==
    /\ thr[t].role = "worker" /\ thr[t].pc = "w_exec"
    /\ executed' = [executed EXCEPT ![thr[t].item] = @ + 1]
    /\ thr' = [thr EXCEPT ![t] = worker_loop(@)]
    /\ UNCHANGED <<sems, queues, pushed, m_index>>

\* enqueue_work(task): auto i = m_index++; then the first try_push of the
\* for loop, on m_queues[(i + 0) % m_count]
enqueue_work(t) ==
    /\ thr[t].role = "client" /\ thr[t].pc = "idle" /\ thr[t].todo # <<>>
    /\ m_index' = m_index + 1
    /\ thr' = [thr EXCEPT ![t] =
            enter_push([@ EXCEPT !.i = m_index, !.n = 0], "try_push",
                       (m_index + 0) % pool_m_count, Head(@.todo))]
    /\ UNCHANGED <<sems, queues, pushed, executed>>

\* ~thread_pool begins: for (auto& queue : m_queues) queue.done()
destructor(t) ==
    /\ thr[t].role = "owner" /\ thr[t].pc = "idle"
    /\ thr' = [thr EXCEPT ![t] = enter_done([@ EXCEPT !.n = 0], 0)]
    /\ UNCHANGED <<sems, queues, pushed, executed, m_index>>

\* ~thread_pool: for (auto& thread : m_threads) thread.join()
destructor_join(t) ==
    /\ thr[t].role = "owner" /\ thr[t].pc = "d_join"
    /\ \A w \in DOMAIN thr : thr[w].role = "worker" => thr[w].pc = "w_exit"
    /\ thr' = [thr EXCEPT ![t].pc = "d_end"]
    /\ UNCHANGED <<sems, queues, pushed, executed, m_index>>

---------------------------------------------------------------------------
(* PoolSpec: a pool of W workers over Q queues, clients that submit        *)
(* MaxTasks tasks with enqueue_work, and the owner that destroys the pool  *)
(* at any moment                                                           *)

Owner == 0

Workers == {t \in DOMAIN thr : thr[t].role = "worker"}

Clients == {t \in DOMAIN thr : thr[t].role = "client"}

Tasks == 1..MaxTasks

\* the tasks of client c of nc, in the order in which it submits them
TasksOf(c, nc) == [k \in 1..((MaxTasks + nc - c) \div nc) |-> c + (k - 1) * nc]

\* thread_pool(threads, queues): the queues, and worker i % queues started
\* for i = 0 .. threads - 1
PoolInit ==
    /\ \E W \in 1..NWorkers, Q \in 1..NQueues, nc \in 1..NClients, size \in Q_SIZES :
          /\ Q <= W
          /\ W + nc = MaxPoolThreads
          /\ queues = [q \in 0..(Q - 1) |-> atomic_blocking_queue(size)]
          /\ sems = queue_sems(0..(Q - 1), size)
          /\ pushed = [q \in 0..(Q - 1) |-> <<>>]
          /\ thr = [t \in 0..(W + nc) |->
                      IF t = Owner THEN thread("owner")
                      ELSE IF t <= W
                           THEN enter_pop([thread("worker") EXCEPT !.home = (t - 1) % Q],
                                          "try_pop", (t - 1) % Q)
                           ELSE [thread("client") EXCEPT !.todo = TasksOf(t - W, nc)]]
    /\ m_index = 0
    /\ executed = [x \in Tasks |-> 0]
    /\ pool = [started |-> FALSE, clean |-> FALSE, before |-> {},
               closed |-> {}, late |-> {}]
    /\ sut = "fast_semaphore" /\ init_count = 0
    /\ ring = <<>> /\ build = <<>> /\ low = {} /\ dtor = <<>>
    /\ ref = semaphore(0) /\ seq = TRUE
    /\ closing = [called |-> FALSE, returned |-> FALSE, waiters |-> {},
                  pending |-> FALSE, posts |-> 0, quiet |-> FALSE]
    /\ tally = [post |-> 0, wait |-> 0, wait_for |-> 0, done |-> 0,
                wait_true |-> 0, wait_false |-> 0, try_true |-> 0]

\* every enqueue_work call has been made and has returned
AllSubmitted == \A c \in Clients : thr[c].pc = "idle" /\ thr[c].todo = <<>>

\* the tasks whose push on queue q has been carried out, enqueue_work
\* having returned
Landed(q) == {x \in Tasks : \E c \in Clients : \E k \in DOMAIN thr[c].got :
                                thr[c].got[k] = <<x, q>>}

\* done() returns to the owner in this step
DoneReturns ==
    /\ thr[Owner].qop = "done"
    /\ thr'[Owner].qop # "done" \/ thr'[Owner].q # thr[Owner].q

\* the tasks that take a push ticket in this step on a queue for which
\* done() has returned
TicketAfterClose ==
    {x \in Tasks : \E q \in pool.closed :
                      /\ Len(pushed'[q]) > Len(pushed[q])
                      /\ x = pushed'[q][Len(pushed'[q])]}

\* bookkeeping: when the owner calls done() on queue q, note the tasks
\* that have landed in q; at the first of these calls, note whether every
\* enqueue_work had returned; note the queues for which done() has
\* returned and the tasks that took their push ticket after that
PoolGhost ==
    /\ NoSemGhost /\ UNCHANGED <<low, dtor>>
    /\ pool' =
         LET enters == thr[Owner].pc # "q_done" /\ thr'[Owner].pc = "q_done"
         IN IF enters \/ DoneReturns
            THEN [pool EXCEPT
                    !.started = @ \/ enters,
                    !.clean = IF enters /\ ~pool.started THEN AllSubmitted ELSE @,
                    !.before = IF enters THEN @ \cup Landed(thr'[Owner].q) ELSE @,
                    !.closed = IF DoneReturns THEN @ \cup {thr[Owner].q} ELSE @]
            ELSE IF pool.closed # {} /\ pushed' # pushed
                 THEN [pool EXCEPT !.late = @ \cup TicketAfterClose]
                 ELSE pool

\* one step of thread t inside the pool
PoolStep(t) ==
    \/ tryWait_load(t) /\ UNCHANGED <<queues, pushed, m_index, executed>> /\ PoolGhost
    \/ tryWait_cas(t) /\ UNCHANGED <<queues, pushed, m_index, executed>> /\ PoolGhost
    \/ spin_load(t) /\ UNCHANGED <<queues, pushed, m_index, executed>> /\ PoolGhost
    \/ spin_cas(t) /\ UNCHANGED <<queues, pushed, m_index, executed>> /\ PoolGhost
    \/ wait_fetch_sub(t) /\ UNCHANGED <<queues, pushed, m_index, executed>> /\ PoolGhost
    \/ post_fetch_add(t) /\ UNCHANGED <<queues, pushed, m_index, executed>> /\ PoolGhost
    \/ semaphore_wait(t) /\ UNCHANGED <<queues, pushed, m_index, executed>> /\ PoolGhost
    \/ semaphore_post(t) /\ UNCHANGED <<queues, pushed, m_index, executed>> /\ PoolGhost
    \/ semaphore_notify_one(t) /\ UNCHANGED <<queues, pushed, m_index, executed>> /\ PoolGhost
    \/ semaphore_done(t) /\ UNCHANGED <<queues, pushed, m_index, executed>> /\ PoolGhost
    \/ semaphore_notify_all(t) /\ UNCHANGED <<queues, pushed, m_index, executed>> /\ PoolGhost
    \/ push_ticket(t) /\ UNCHANGED <<m_index, executed>> /\ PoolGhost
    \/ push_write(t) /\ UNCHANGED <<m_index, executed>> /\ PoolGhost
    \/ push_spin(t) /\ UNCHANGED <<m_index, executed>> /\ PoolGhost
    \/ push_commit(t) /\ UNCHANGED <<m_index, executed>> /\ PoolGhost
    \/ pop_ticket(t) /\ UNCHANGED <<m_index, executed>> /\ PoolGhost
    \/ pop_read(t) /\ UNCHANGED <<m_index, executed>> /\ PoolGhost
    \/ pop_spin(t) /\ UNCHANGED <<m_index, executed>> /\ PoolGhost
    \/ pop_commit(t) /\ UNCHANGED <<m_index, executed>> /\ PoolGhost
    \/ queue_done(t) /\ UNCHANGED <<m_index, executed>> /\ PoolGhost
    \/ worker_exec(t) /\ PoolGhost
    \/ enqueue_work(t) /\ PoolGhost
    \/ destructor_join(t) /\ PoolGhost

PoolNext ==
    \/ \E t \in DOMAIN thr : PoolStep(t)
    \/ \E t \in DOMAIN thr : destructor(t) /\ PoolGhost
    \/ \E t \in DOMAIN thr :
          spurious_wakeup(t) /\ UNCHANGED <<queues, pushed, m_index, executed>> /\ PoolGhost

PoolSpec == PoolInit /\ [][PoolNext]_vars

\* the pools of NWorkers workers over one queue of the largest capacity
LivePoolInit ==
    /\ PoolInit
    /\ Cardinality(Workers) = NWorkers /\ pool_m_count = 1
    /\ Q_SIZE(queues[0]) = 2 ^ QSizeLog

\* the scheduler runs every thread that can take a step; ~thread_pool is
\* not obliged to be called, and no wake-up is obliged to be spurious
FairPoolSpec ==
    /\ LivePoolInit /\ [][PoolNext]_vars
    /\ \A t \in 0..MaxPoolThreads : WF_vars(PoolStep(t))

---------------------------------------------------------------------------
(* Claims about atomic_blocking_queue *)

IsPrefix(a, b) == Len(a) <= Len(b) /\ SubSeq(b, 1, Len(a)) = a

Range(f) == {f[k] : k \in DOMAIN f}

\* the items producer p was given, in its order
Given(p) == LET np == Cardinality(QProducers) IN ItemsOf(p, np)

\* the items of producer p that took a push ticket, in the order in which
\* p pushed them
PushedBy(p) == SelectSeq(Given(p), LAMBDA x : x \in Range(pushed[0]))

\* C10: ticket-queue FIFO.  With one consumer on the queue, what the
\* consumer has popped is always a prefix of the items in push-ticket order,
\* hence for every producer the items of that producer are popped in the
\* order in which it pushed them; with one producer and one consumer, once
\* the queue is drained and nobody is inside a call the sequence popped
\* equals the sequence pushed.
C10_TicketQueueFIFO ==
    \A c \in QConsumers :
        QConsumers = {c} =>
            /\ IsPrefix(thr[c].got, pushed[0])
            /\ \A p \in QProducers :
                  IsPrefix(SelectSeq(thr[c].got, LAMBDA x : x \in Range(Given(p))),
                           PushedBy(p))
            /\ \A p \in QProducers :
                  (/\ QProducers = {p}
                   /\ \A u \in DOMAIN thr : thr[u].pc = "idle"
                   /\ queues[0].m_popIndex = queues[0].m_pushingIndex)
                  => thr[c].got = PushedBy(p)

\* two producers and one consumer: the three items went through the two
\* slots, the second producer's item first
C10_Witness ==
    /\ Cardinality(QProducers) = 2
    /\ \E c \in QConsumers :
          /\ QConsumers = {c}
          /\ Len(thr[c].got) = MaxItems
          /\ thr[c].got[1] \in Range(Given(2))
          /\ thr[c].got[2] \in Range(Given(1))
          /\ thr[c].got[3] \in Range(Given(1))

---------------------------------------------------------------------------
(* Claims about thread_pool *)

\* the destructor has returned: every queue closed, every worker joined
Destroyed == thr[Owner].pc = "d_end"

\* C1: pool exactly-once.  If every enqueue_work call had returned when the
\* destructor started, then once the destructor has returned each of the
\* submitted tasks has been executed exactly once.
C1_PoolExactlyOnce ==
    (Destroyed /\ pool.clean) => \A x \in Tasks : executed[x] = 1

\* a pool of two workers over two queues, destroyed after all submissions
C1_Witness ==
    /\ Destroyed /\ pool.clean
    /\ Cardinality(Workers) = 2 /\ pool_m_count = 2
    /\ \A x \in Tasks : executed[x] = 1

\* C2: pool drain on close.  When all workers have terminated, every task
\* whose push on a queue had completed before done() was called on that
\* queue has been executed.
C2_DrainOnClose ==
    (\A w \in Workers : thr[w].pc = "w_exit")
        => \A x \in pool.before : executed[x] >= 1

\* the workers that hold task x: popped and not yet run to its end
Holding(x) == {w \in Workers : thr[w].item = x}

\* C3: at-most-once execution in every interleaving.  No task has been
\* executed more than once, nor is held by a worker after it was executed
\* or held by two workers; no pop has read a slot that holds no element and
\* no push has written over one that does; what a worker is about to run is
\* a task that took a push ticket.
C3_AtMostOnce ==
    /\ \A x \in Tasks : executed[x] + Cardinality(Holding(x)) <= 1
    /\ \A q \in DOMAIN queues : ~queues[q].ub
    /\ \A w \in Workers :
          thr[w].pc = "w_exec" =>
              \E q \in DOMAIN pushed : \E k \in DOMAIN pushed[q] :
                  pushed[q][k] = thr[w].item

\* submissions raced with the destructor and two workers ran the tasks
C3_Witness ==
    /\ pool.started /\ ~pool.clean
    /\ Cardinality(Workers) = 2
    /\ \A x \in Tasks : executed[x] = 1
    /\ \E x \in Tasks : x \notin pool.before

\* C4: shutdown terminates.  Under fair scheduling, once the destructor has
\* begun to call done() on the queues, every worker eventually leaves its
\* loop and the destructor returns.
C4_ShutdownTerminates ==
    pool.started ~> (Destroyed /\ \A w \in Workers : thr[w].pc = "w_exit")

\* the destructor returned; a task had been submitted while it ran, and
\* executed
C4_Witness ==
    /\ Destroyed /\ \A w \in Workers : thr[w].pc = "w_exit"
    /\ \E x \in Tasks : executed[x] = 1 /\ x \notin pool.before

---------------------------------------------------------------------------
(* Further claims about atomic_blocking_queue *)

RECURSIVE SumLen(_)
SumLen(S) == IF S = {} THEN 0
             ELSE LET c == CHOOSE c \in S : TRUE
                  IN Len(thr[c].got) + SumLen(S \ {c})

\* the items that successful pops have returned
PoppedItems == UNION {Range(thr[c].got) : c \in QConsumers}

\* pushes that hold an open slot: a push ticket taken, or about to be
SlotsTaken ==
    Len(pushed[0]) + Cardinality({p \in QProducers : thr[p].pc = "qpush_ticket"})

\* pops that have given their slot back: returned, or past the fetch_add of
\* m_openSlots.post()
SlotsGivenBack ==
    SumLen(QConsumers)
    + Cardinality({c \in QConsumers : /\ thr[c].sem = <<"open", 0>>
                                      /\ thr[c].pc \in {"in_post", "in_notify"}})

\* everybody is outside a call, the producers have pushed everything and
\* every committed push has been popped
Drained ==
    /\ \A u \in DOMAIN thr : thr[u].pc = "idle"
    /\ \A p \in QProducers : thr[p].todo = <<>>
    /\ queues[0].m_popIndex = queues[0].m_pushIndex

\* C11: queue conservation and capacity bound.  While the queue has not
\* been closed: every item returned by a successful pop is an item that was
\* pushed and no item is returned twice; once the producers have finished
\* and the queue is drained the items popped are exactly the items pushed;
\* the pushes that hold a slot exceed the pops that have given theirs back
\* by at most Q_SIZE.
C11_ConservationAndCapacity ==
    ~queues[0].m_done =>
        /\ PoppedItems \subseteq Range(pushed[0])
        /\ SumLen(QConsumers) = Cardinality(PoppedItems)
        /\ Drained => /\ PoppedItems = Range(pushed[0])
                      /\ SumLen(QConsumers) = MaxItems
        /\ SlotsTaken - SlotsGivenBack <= Q_SIZE(queues[0])
        /\ SlotsTaken - queues[0].m_popIndex <= Q_SIZE(queues[0])

\* one producer, two consumers, capacity 2: all items popped, each consumer
\* having popped some
C11_Witness ==
    /\ ~queues[0].m_done /\ Drained
    /\ Q_SIZE(queues[0]) = 2
    /\ Cardinality(QConsumers) = 2
    /\ \A c \in QConsumers : thr[c].got # <<>>
    /\ SumLen(QConsumers) = MaxItems

\* the tasks in queue q whose push has been carried out (enqueue_work has
\* returned) and that no pop has moved out of their slot
HeldCompleted(q) == Landed(q) \cap Range(queues[q].m_data)

\* the threads that hold a signal of full_slots of queue q for an item they
\* have not yet moved out of its slot
PopClaimants(q) ==
    {u \in DOMAIN thr : /\ thr[u].q = q
                        /\ thr[u].qop \in {"pop", "try_pop"}
                        /\ thr[u].pc \in {"qpop_ticket", "qpop_read"}}

\* worker w returns from the blocking pop in this step with nothing
PopReturnsFalse(w) ==
    /\ thr[w].role = "worker" /\ thr[w].qop = "pop"
    /\ thr'[w].pc = "w_exit"

\* worker w returns from the blocking pop in this step with a task
PopReturnsTrue(w) ==
    /\ thr[w].role = "worker" /\ thr[w].qop = "pop"
    /\ thr'[w].pc = "w_exec"

\* C12: blocking pop returns false iff the queue was closed and empty.  A
\* blocking pop that returns false does so on a queue on which done() has
\* been called and which holds no item whose push has completed, other than
\* items that another pop is already entitled to and is about to move; a
\* blocking pop that returns true has taken one pop ticket and moved the
\* item of that ticket out of its slot.
C12_PopFalseIffClosedAndEmpty ==
    [][\A w \in Workers :
          /\ PopReturnsFalse(w) =>
                /\ queues[thr[w].q].m_done
                /\ Cardinality(HeldCompleted(thr[w].q))
                      <= Cardinality(PopClaimants(thr[w].q))
          /\ PopReturnsTrue(w) =>
                /\ thr'[w].item = pushed[thr[w].q][thr[w].expected + 1]
                /\ thr'[w].item \notin Range(queues[thr[w].q].m_data)
      ]_vars

\* thread t is in the commit spin of impl push or impl pop and the tickets
\* before its own have not all been committed: its loop condition stays
\* true until another thread increments the commit counter
MustWaitForTurn(t) ==
    \/ /\ thr[t].pc = "qpush_spin"
       /\ ~commit_turn(thr[t].expected, queues[thr[t].q].m_pushIndex)
    \/ /\ thr[t].pc = "qpop_spin"
       /\ ~commit_turn(thr[t].expected, queues[thr[t].q].m_popIndex)

\* C13: try_push and try_pop never wait.  No thread inside try_push or
\* try_pop is ever in a state from which it can go on only after another
\* thread has taken a step, the commit phase after the slot access included.
C13_TryNeverWaits ==
    \A t \in DOMAIN thr :
        thr[t].qop \in {"try_push", "try_pop"} => ~MustWaitForTurn(t)

---------------------------------------------------------------------------
(* LockFreeQueue (unnamed/part_001): the ring buffer with per-thread       *)
(* head and tail rows.  Every load and store of head_, tail_, last_head_,  *)
(* last_tail_ and of a row of thr_p_ is one step.                          *)

\* ULONG_MAX, the value of a row that holds no reservation; the word is
\* narrowed to 31 bits, which every ticket of the model stays far below
ULONG_MAX == 2147483647

\* storage that holds no constructed element
Raw == -1

RingSizes == {2 ^ k : k \in 0..RingSizeLog}

\* LockFreeQueue(n_producers, n_consumers): counters 0, every row of
\* thr_p_ set to ULONG_MAX by the memset, ptr_array_ raw.  built, published
\* and taken record the tickets whose element has been constructed, whose
\* producer has stored ULONG_MAX after constructing, and whose element has
\* been swapped out; overwritten and ub record a placement new over a live
\* element and a swap with storage that holds no element.
LockFreeQueue(n_producers, n_consumers, size) ==
    [n_producers_ |-> n_producers, n_consumers_ |-> n_consumers,
     head_ |-> 0, tail_ |-> 0, last_head_ |-> 0, last_tail_ |-> 0,
     thr_p_ |-> [i \in 0..((IF n_consumers < n_producers THEN n_producers
                            ELSE n_consumers) - 1) |->
                    [head |-> ULONG_MAX, tail |-> ULONG_MAX]],
     ptr_array_ |-> [k \in 0..(size - 1) |-> Raw],
     built |-> {}, published |-> {}, taken |-> {},
     overwritten |-> FALSE, ub |-> FALSE]

RingQ_SIZE == Cardinality(DOMAIN ring.ptr_array_)

\* ptr_array_ + (ticket & Q_MASK)
ring_slot(ticket) == BitAnd(ticket, RingQ_SIZE - 1)

\* a thread that uses the queue: role, thr_id(), position, calls left to
\* make, the register that holds the loaded or fetched counter, the locals
\* min and i of the scan, and what its pops returned
ring_thread(role, id, todo) ==
    [role |-> role, id |-> id, pc |-> "idle", todo |-> todo,
     reg |-> 0, min |-> 0, i |-> 0, got |-> <<>>]

\* thr_pos(): the row of the calling thread
thr_pos(t) == ring.thr_p_[thr[t].id]

\* the push loop is left, or not entered, when head is below this
ring_has_room_m(head, last_tail, size) == head < last_tail + size + 1

\* !(tp.head >= last_tail_ + Q_SIZE), and tp.head < last_tail_ + Q_SIZE
ring_has_room(head, last_tail, size) == head < last_tail + size

\* !(tp.tail >= last_head_), and tp.tail < last_head_
ring_has_item(tail, last_head) == tail < last_head

\* push: tp.head = head_, the load
ring_push_load(t) ==
    /\ thr[t].pc = "idle" /\ thr[t].role = "pusher" /\ thr[t].todo > 0
    /\ thr' = [thr EXCEPT ![t].reg = ring.head_, ![t].pc = "push_store"]
    /\ UNCHANGED ring

\* push: tp.head = head_, the store to the row
ring_push_store(t) ==
    /\ thr[t].pc = "push_store"
    /\ ring' = [ring EXCEPT !.thr_p_[thr[t].id].head = thr[t].reg]
    /\ thr' = [thr EXCEPT ![t].pc = "push_fetch_add"]

\* push: head_.fetch_add(1)
ring_push_fetch_add(t) ==
    /\ thr[t].pc = "push_fetch_add"
    /\ ring' = [ring EXCEPT !.head_ = @ + 1]
    /\ thr' = [thr EXCEPT ![t].reg = ring.head_, ![t].pc = "push_store_ticket"]

\* push: tp.head = (the fetched value)
ring_push_store_ticket(t) ==
    /\ thr[t].pc = "push_store_ticket"
    /\ ring' = [ring EXCEPT !.thr_p_[thr[t].id].head = thr[t].reg]
    /\ thr' = [thr EXCEPT ![t].pc = "push_check"]

\* push: while (tp.head >= last_tail_ + Q_SIZE)
ring_push_check(t) ==
    /\ thr[t].pc = "push_check"
    /\ thr' = [thr EXCEPT ![t].pc =
                 IF ring_has_room(thr_pos(t).head, ring.last_tail_, RingQ_SIZE)
                 THEN "push_construct" ELSE "push_min"]
    /\ UNCHANGED ring

\* push: auto min = tail_.load()
ring_push_min(t) ==
    /\ thr[t].pc = "push_min"
    /\ thr' = [thr EXCEPT ![t].min = ring.tail_, ![t].i = 0, ![t].pc = "push_scan"]
    /\ UNCHANGED ring

\* push: one turn of for (i < n_consumers_): tmp_t = thr_p_[i].tail, min
ring_push_scan(t) ==
    /\ thr[t].pc = "push_scan"
    /\ thr[t].i < ring.n_consumers_
    /\ thr' = [thr EXCEPT ![t].min = Min(@, ring.thr_p_[thr[t].i].tail),
                          ![t].i = @ + 1]
    /\ UNCHANGED ring

\* push: last_tail_ = min
ring_push_update(t) ==
    /\ thr[t].pc = "push_scan"
    /\ thr[t].i >= ring.n_consumers_
    /\ ring' = [ring EXCEPT !.last_tail_ = thr[t].min]
    /\ thr' = [thr EXCEPT ![t].pc = "push_recheck"]

\* push: if (tp.head < last_tail_ + Q_SIZE) break; yield()
ring_push_recheck(t) ==
    /\ thr[t].pc = "push_recheck"
    /\ thr' = [thr EXCEPT ![t].pc =
                 IF ring_has_room(thr_pos(t).head, ring.last_tail_, RingQ_SIZE)
                 THEN "push_construct" ELSE "push_check"]
    /\ UNCHANGED ring

\* push: new (ptr_array_ + (tp.head & Q_MASK)) T(...)
ring_push_construct(t) ==
    /\ thr[t].pc = "push_construct"
    /\ LET ticket == thr_pos(t).head
           k == ring_slot(ticket)
       IN ring' = [ring EXCEPT !.ptr_array_[k] = ticket,
                               !.built = @ \cup {ticket},
                               !.overwritten = @ \/ ring.ptr_array_[k] # Raw]
    /\ thr' = [thr EXCEPT ![t].pc = "push_publish"]

\* push: tp.head = ULONG_MAX
ring_push_publish(t) ==
    /\ thr[t].pc = "push_publish"
    /\ ring' = [ring EXCEPT !.thr_p_[thr[t].id].head = ULONG_MAX,
                            !.published = @ \cup {thr_pos(t).head}]
    /\ thr' = [thr EXCEPT ![t].pc = "idle", ![t].todo = @ - 1]

\* pop: tp.tail = tail_.load(), the load
ring_pop_load(t) ==
    /\ thr[t].pc = "idle" /\ thr[t].role = "popper" /\ thr[t].todo > 0
    /\ thr' = [thr EXCEPT ![t].reg = ring.tail_, ![t].pc = "pop_store"]
    /\ UNCHANGED ring

\* pop: tp.tail = tail_.load(), the store to the row
ring_pop_store(t) ==
    /\ thr[t].pc = "pop_store"
    /\ ring' = [ring EXCEPT !.thr_p_[thr[t].id].tail = thr[t].reg]
    /\ thr' = [thr EXCEPT ![t].pc = "pop_fetch_add"]

\* pop: tail_.fetch_add(1)
ring_pop_fetch_add(t) ==
    /\ thr[t].pc = "pop_fetch_add"
    /\ ring' = [ring EXCEPT !.tail_ = @ + 1]
    /\ thr' = [thr EXCEPT ![t].reg = ring.tail_, ![t].pc = "pop_store_ticket"]

\* pop: tp.tail = (the fetched value)
ring_pop_store_ticket(t) ==
    /\ thr[t].pc = "pop_store_ticket"
    /\ ring' = [ring EXCEPT !.thr_p_[thr[t].id].tail = thr[t].reg]
    /\ thr' = [thr EXCEPT ![t].pc = "pop_check"]

\* pop: while (tp.tail >= last_head_)
ring_pop_check(t) ==
    /\ thr[t].pc = "pop_check"
    /\ thr' = [thr EXCEPT ![t].pc =
                 IF ring_has_item(thr_pos(t).tail, ring.last_head_)
                 THEN "pop_swap" ELSE "pop_min"]
    /\ UNCHANGED ring

\* pop: auto min = head_.load()
ring_pop_min(t) ==
    /\ thr[t].pc = "pop_min"
    /\ thr' = [thr EXCEPT ![t].min = ring.head_, ![t].i = 0, ![t].pc = "pop_scan"]
    /\ UNCHANGED ring

\* pop: one turn of for (i < n_producers_): tmp_h = thr_p_[i].head, min
ring_pop_scan(t) ==
    /\ thr[t].pc = "pop_scan"
    /\ thr[t].i < ring.n_producers_
    /\ thr' = [thr EXCEPT ![t].min = Min(@, ring.thr_p_[thr[t].i].head),
                          ![t].i = @ + 1]
    /\ UNCHANGED ring

\* pop: last_head_ = min
ring_pop_update(t) ==
    /\ thr[t].pc = "pop_scan"
    /\ thr[t].i >= ring.n_producers_
    /\ ring' = [ring EXCEPT !.last_head_ = thr[t].min]
    /\ thr' = [thr EXCEPT ![t].pc = "pop_recheck"]

\* pop: if (tp.tail < last_head_) break; yield()
ring_pop_recheck(t) ==
    /\ thr[t].pc = "pop_recheck"
    /\ thr' = [thr EXCEPT ![t].pc =
                 IF ring_has_item(thr_pos(t).tail, ring.last_head_)
                 THEN "pop_swap" ELSE "pop_check"]
    /\ UNCHANGED ring

\* pop: t.swap(ptr_array_[tp.tail & Q_MASK]); ptr_array_[...].~T().  On
\* storage that holds no element the swap is undefined: the call goes on
\* with what the storage held, or the thread stops there.
ring_pop_swap(t) ==
    /\ thr[t].pc = "pop_swap"
    /\ LET ticket == thr_pos(t).tail
           k == ring_slot(ticket)
           x == ring.ptr_array_[k]
       IN /\ ring' = [ring EXCEPT !.ptr_array_[k] = Raw,
                                  !.taken = @ \cup {ticket},
                                  !.ub = @ \/ x = Raw]
          /\ \/ thr' = [thr EXCEPT ![t].got = Append(@, x), ![t].pc = "pop_publish"]
             \/ x = Raw /\ thr' = [thr EXCEPT ![t].pc = "crashed"]

\* pop: tp.tail = ULONG_MAX
ring_pop_publish(t) ==
    /\ thr[t].pc = "pop_publish"
    /\ ring' = [ring EXCEPT !.thr_p_[thr[t].id].tail = ULONG_MAX]
    /\ thr' = [thr EXCEPT ![t].pc = "idle", ![t].todo = @ - 1]

---------------------------------------------------------------------------
(* RingSpec: pushing and popping threads on one LockFreeQueue.  The queue  *)
(* is constructed for n_producers and n_consumers; the threads have ids    *)
(* below max(n_producers, n_consumers), as thr_pos() asserts, no two       *)
(* pushing threads the same id and no two popping threads the same id.     *)

Pushers == {t \in DOMAIN thr : thr[t].role = "pusher"}

Poppers == {t \in DOMAIN thr : thr[t].role = "popper"}

\* the calls of thread k of n: the MaxRingOps calls are dealt round
RingOpsOf(k, n) == (MaxRingOps + n - k) \div n

RingInit ==
    /\ \E np \in 1..MaxRingParties, nc \in 1..MaxRingParties, size \in RingSizes :
          ring = LockFreeQueue(np, nc, size)
    /\ \E P \in 1..(MaxRingThreads - 1), C \in 1..(MaxRingThreads - 1) :
          /\ P + C <= MaxRingThreads
          /\ \E ids \in [1..(P + C) -> DOMAIN ring.thr_p_] :
                /\ \A a, b \in 1..P : a # b => ids[a] # ids[b]
                /\ \A a, b \in (P + 1)..(P + C) : a # b => ids[a] # ids[b]
                /\ thr = [t \in 1..(P + C) |->
                            IF t <= P
                            THEN ring_thread("pusher", ids[t], RingOpsOf(t, P))
                            ELSE ring_thread("popper", ids[t], RingOpsOf(t - P, C))]
    /\ sems = <<>> /\ queues = <<>> /\ pushed = <<>>
    /\ m_index = 0 /\ executed = <<>> /\ pool = <<>> /\ build = <<>> /\ low = {} /\ dtor = <<>>
    /\ sut = "LockFreeQueue" /\ init_count = 0
    /\ ref = semaphore(0) /\ seq = TRUE
    /\ closing = [called |-> FALSE, returned |-> FALSE, waiters |-> {},
                  pending |-> FALSE, posts |-> 0, quiet |-> FALSE]
    /\ tally = [post |-> 0, wait |-> 0, wait_for |-> 0, done |-> 0,
                wait_true |-> 0, wait_false |-> 0, try_true |-> 0]

\* what RingSpec never touches
RingGhost ==
    UNCHANGED <<sems, queues, m_index, executed, pushed, pool,
                sut, init_count, ref, seq, closing, tally, build, low, dtor>>

RingNext ==
    \/ \E t \in DOMAIN thr : ring_push_load(t) /\ RingGhost
    \/ \E t \in DOMAIN thr : ring_push_store(t) /\ RingGhost
    \/ \E t \in DOMAIN thr : ring_push_fetch_add(t) /\ RingGhost
    \/ \E t \in DOMAIN thr : ring_push_store_ticket(t) /\ RingGhost
    \/ \E t \in DOMAIN thr : ring_push_check(t) /\ RingGhost
    \/ \E t \in DOMAIN thr : ring_push_min(t) /\ RingGhost
    \/ \E t \in DOMAIN thr : ring_push_scan(t) /\ RingGhost
    \/ \E t \in DOMAIN thr : ring_push_update(t) /\ RingGhost
    \/ \E t \in DOMAIN thr : ring_push_recheck(t) /\ RingGhost
    \/ \E t \in DOMAIN thr : ring_push_construct(t) /\ RingGhost
    \/ \E t \in DOMAIN thr : ring_push_publish(t) /\ RingGhost
    \/ \E t \in DOMAIN thr : ring_pop_load(t) /\ RingGhost
    \/ \E t \in DOMAIN thr : ring_pop_store(t) /\ RingGhost
    \/ \E t \in DOMAIN thr : ring_pop_fetch_add(t) /\ RingGhost
    \/ \E t \in DOMAIN thr : ring_pop_store_ticket(t) /\ RingGhost
    \/ \E t \in DOMAIN thr : ring_pop_check(t) /\ RingGhost
    \/ \E t \in DOMAIN thr : ring_pop_min(t) /\ RingGhost
    \/ \E t \in DOMAIN thr : ring_pop_scan(t) /\ RingGhost
    \/ \E t \in DOMAIN thr : ring_pop_update(t) /\ RingGhost
    \/ \E t \in DOMAIN thr : ring_pop_recheck(t) /\ RingGhost
    \/ \E t \in DOMAIN thr : ring_pop_swap(t) /\ RingGhost
    \/ \E t \in DOMAIN thr : ring_pop_publish(t) /\ RingGhost

RingSpec == RingInit /\ [][RingNext]_vars

---------------------------------------------------------------------------
(* Claims about LockFreeQueue *)

\* no two threads that use the queue have the same thr_id()
DistinctIds == \A a, b \in DOMAIN thr : a # b => thr[a].id # thr[b].id

\* every pushing thread has a row that pop scans and every popping thread
\* a row that push scans
ScannedIds ==
    /\ \A t \in Pushers : thr[t].id < ring.n_producers_
    /\ \A t \in Poppers : thr[t].id < ring.n_consumers_

\* popping thread c has left the wait loop with a ticket whose element has
\* not been constructed and published
ReadsUnpublished(c) ==
    /\ thr[c].pc = "pop_swap"
    /\ thr_pos(c).tail \notin ring.published

\* C14: RingQueue slot safety.  For every (n_producers, n_consumers) and
\* every assignment of distinct thread ids below max(n_producers,
\* n_consumers), a popping thread never goes on to swap out the slot of
\* its ticket r before the pushing thread that holds ticket r has
\* constructed the element and stored ULONG_MAX in its head row.
C14_RingSlotSafety ==
    DistinctIds => \A c \in Poppers : ~ReadsUnpublished(c)

\* the same with ids that the scans cover
RingSlotSafetyScanned ==
    ScannedIds => \A c \in Poppers : ~ReadsUnpublished(c)

\* the pushing threads that hold a ticket and have not yet found room for it
WaitingPushers ==
    {t \in Pushers : thr[t].pc \in {"push_store_ticket", "push_check", "push_min",
                                    "push_scan", "push_recheck"}}

\* the popping threads that hold a ticket and have not yet found its item
WaitingPoppers ==
    {t \in Poppers : thr[t].pc \in {"pop_store_ticket", "pop_check", "pop_min",
                                    "pop_scan", "pop_recheck"}}

\* C15 as stated: RingQueue occupancy.  In every reachable state the atomic
\* counters satisfy head - tail <= capacity.
C15_RingOccupancy == ring.head_ - ring.tail_ <= RingQ_SIZE

\* C15 as the code has it: push and pop take their ticket before they wait,
\* so head runs ahead of tail + capacity by at most the pushing threads
\* that are waiting for room, and tail runs ahead of head by at most the
\* popping threads that are waiting for an item.
C15_RingOccupancyInFlight ==
    /\ ring.head_ - ring.tail_ <= RingQ_SIZE + Cardinality(WaitingPushers)
    /\ ring.tail_ - ring.head_ <= Cardinality(WaitingPoppers)

C15_Witness ==
    /\ ring.head_ - ring.tail_ = RingQ_SIZE + 1
    /\ Cardinality(WaitingPushers) = 1
    /\ ring.published # {}

\* the tail tickets that a popping thread has fetched and not yet given
\* up by storing ULONG_MAX in its row; reg holds the fetched ticket
UnreleasedTails ==
    {thr[c].reg : c \in {t \in Poppers :
                            thr[t].pc \in {"pop_store_ticket", "pop_check",
                                            "pop_min", "pop_scan", "pop_recheck",
                                            "pop_swap", "pop_publish"}}}

\* the pop with ticket k has swapped the element out, destroyed it and
\* stored ULONG_MAX in its tail row
Released(k) == k < ring.tail_ /\ k \in ring.taken /\ k \notin UnreleasedTails

\* pushing thread p has left the wait loop and constructs in a slot whose
\* previous ticket has not been released
ConstructsUnreleased(p) ==
    /\ thr[p].pc = "push_construct"
    /\ thr_pos(p).head >= RingQ_SIZE
    /\ ~Released(thr_pos(p).head - RingQ_SIZE)

\* every popping thread has a row that push scans
ScannedTails == \A t \in Poppers : thr[t].id < ring.n_consumers_

\* C28: RingQueue slot reuse safety.  In every interleaving a pushing
\* thread that holds ticket r goes on to construct its element in slot
\* r mod capacity only after the popping thread that holds ticket
\* r - capacity has swapped the old element out, destroyed it and stored
\* ULONG_MAX in its tail row.
C28_RingSlotReuse == \A p \in Pushers : ~ConstructsUnreleased(p)

\* the same with popping threads whose rows the scan of push covers
RingSlotReuseScanned ==
    ScannedTails => \A p \in Pushers : ~ConstructsUnreleased(p)

---------------------------------------------------------------------------
(* CtorSpec: one call of thread_pool(threads, queues), statement by        *)
(* statement, and the queue indices that the workers and enqueue_work      *)
(* compute on the pool it leaves behind.                                   *)

\* if(!threads || threads < queues) throw std::invalid_argument(...)
invalid_sizing(nthreads, nqueues) == nthreads = 0 \/ nthreads < nqueues

\* the member initialisers: m_queues(queues), m_count(queues); no thread
\* yet.  use is the last queue index computed on the pool, ub whether an
\* operation with undefined behaviour has been executed.
thread_pool(nthreads, nqueues) ==
    [threads |-> nthreads, queues |-> nqueues, pc |-> "check", i |-> 0,
     m_queues |-> nqueues, m_count |-> nqueues, m_threads |-> <<>>,
     use |-> <<>>, ub |-> FALSE]

\* the values a remainder can leave in the register: a % b, and anything
\* when b is 0 (the division is undefined)
Remainders(a, b) == IF b = 0 THEN 0..MaxCtorThreads ELSE {a % b}

\* the check at the head of the constructor body
ctor_check ==
    /\ build.pc = "check"
    /\ build' = [build EXCEPT !.pc =
                   IF invalid_sizing(build.threads, build.queues)
                   THEN "thrown" ELSE "spawn"]

\* one turn of for (i < threads): m_threads.emplace_back(worker, i % queues).
\* With queues == 0 the remainder is undefined: the process stops, or the
\* worker is started with whatever the remainder left.
ctor_emplace ==
    /\ build.pc = "spawn" /\ build.i < build.threads
    /\ \/ \E home \in Remainders(build.i, build.queues) :
             build' = [build EXCEPT !.m_threads = Append(@, home),
                                    !.i = @ + 1,
                                    !.ub = @ \/ build.queues = 0]
       \/ /\ build.queues = 0
          /\ build' = [build EXCEPT !.pc = "crashed", !.ub = TRUE]

\* the loop ends and the constructor returns
ctor_return ==
    /\ build.pc = "spawn" /\ build.i >= build.threads
    /\ build' = [build EXCEPT !.pc = "built"]

\* worker lambda: m_queues[(i + n) % m_count].try_pop(f), n < m_count * K
ctor_worker_try(w, n) ==
    /\ build.pc = "built"
    /\ n < build.m_count * K
    /\ \E index \in Remainders(build.m_threads[w] + n, build.m_count) :
          build' = [build EXCEPT !.use = <<"worker", index>>]

\* worker lambda: m_queues[i].pop(f)
ctor_worker_home(w) ==
    /\ build.pc = "built"
    /\ build' = [build EXCEPT !.use = <<"worker", build.m_threads[w]>>]

\* enqueue_work: m_queues[(i + n) % m_count].try_push(...), n < m_count * K
ctor_submit_try(i, n) ==
    /\ build.pc = "built"
    /\ n < build.m_count * K
    /\ \E index \in Remainders(i + n, build.m_count) :
          build' = [build EXCEPT !.use = <<"submit", index>>]

\* enqueue_work: m_queues[i % m_count].push(...)
ctor_submit_push(i) ==
    /\ build.pc = "built"
    /\ \/ \E index \in Remainders(i, build.m_count) :
             build' = [build EXCEPT !.use = <<"submit", index>>,
                                    !.ub = @ \/ build.m_count = 0]
       \/ /\ build.m_count = 0
          /\ build' = [build EXCEPT !.pc = "crashed", !.ub = TRUE]

CtorInit ==
    /\ \E nthreads \in 0..MaxCtorThreads, nqueues \in 0..MaxCtorQueues :
          build = thread_pool(nthreads, nqueues)
    /\ thr = <<>> /\ ring = <<>> /\ low = {} /\ dtor = <<>>
    /\ sems = <<>> /\ queues = <<>> /\ pushed = <<>>
    /\ m_index = 0 /\ executed = <<>> /\ pool = <<>>
    /\ sut = "thread_pool" /\ init_count = 0
    /\ ref = semaphore(0) /\ seq = TRUE
    /\ closing = [called |-> FALSE, returned |-> FALSE, waiters |-> {},
                  pending |-> FALSE, posts |-> 0, quiet |-> FALSE]
    /\ tally = [post |-> 0, wait |-> 0, wait_for |-> 0, done |-> 0,
                wait_true |-> 0, wait_false |-> 0, try_true |-> 0]

\* what CtorSpec never touches
CtorGhost ==
    UNCHANGED <<sems, thr, queues, m_index, executed, pushed, pool,
                sut, init_count, ref, seq, closing, tally, ring, low, dtor>>

CtorNext ==
    \/ ctor_check /\ CtorGhost
    \/ ctor_emplace /\ CtorGhost
    \/ ctor_return /\ CtorGhost
    \/ \E w \in DOMAIN build.m_threads, n \in 0..(MaxCtorQueues * K) :
          ctor_worker_try(w, n) /\ CtorGhost
    \/ \E w \in DOMAIN build.m_threads : ctor_worker_home(w) /\ CtorGhost
    \/ \E i \in 0..MaxCtorIndex, n \in 0..(MaxCtorQueues * K) :
          ctor_submit_try(i, n) /\ CtorGhost
    \/ \E i \in 0..MaxCtorIndex : ctor_submit_push(i) /\ CtorGhost

CtorSpec == CtorInit /\ [][CtorNext]_vars

---------------------------------------------------------------------------
(* Claims about the thread_pool constructor *)

\* C16: pool construction enforces its sizing contract.  thread_pool(
\* workers, queues) throws, no worker started, whenever workers == 0 or
\* workers < queues; every pool that is constructed has W >= Q >= 1, and
\* every queue index computed by the constructor, the workers and
\* enqueue_work is well defined and in range.
C16_SizingContract ==
    /\ (build.threads = 0 \/ build.threads < build.queues)
          => build.pc \in {"check", "thrown"} /\ build.m_threads = <<>>
    /\ build.pc = "built" => build.threads >= build.queues /\ build.queues >= 1
    /\ ~build.ub
    /\ \A w \in DOMAIN build.m_threads : build.m_threads[w] < build.m_queues
    /\ build.use # <<>> => build.use[2] < build.m_queues

---------------------------------------------------------------------------
(* Further claims about thread_pool *)

\* worker w starts running the task it popped in this step
ExecStarts(w) ==
    /\ thr[w].role = "worker" /\ thr[w].pc = "w_exec"
    /\ thr'[w].pc # "w_exec"

\* the tasks that landed in the queue of task x before x did
LandedBefore(x) ==
    UNION {{pushed[q][i] : i \in {i \in DOMAIN pushed[q] :
                                     \E j \in DOMAIN pushed[q] :
                                        i < j /\ pushed[q][j] = x}}
           : q \in DOMAIN pushed}

\* worker w has the pop ticket of task a or has moved a out of its slot,
\* and has not yet run it
InHand(w, a) ==
    \/ thr[w].item = a
    \/ /\ thr[w].pc = "qpop_read"
       /\ thr[w].expected + 1 \in DOMAIN pushed[thr[w].q]
       /\ pushed[thr[w].q][thr[w].expected + 1] = a

\* C17 as stated: per-queue FIFO execution.  When the execution of a task
\* starts, every task that landed in the same queue before it has started
\* its execution, whatever the number of workers that pop from the queue.
C17_FifoExecutionStart ==
    [][\A w \in Workers :
          ExecStarts(w) => \A a \in LandedBefore(thr[w].item) : executed[a] >= 1
      ]_vars

\* C17 as the code has it: tasks leave a queue in the order in which they
\* landed, one pop ticket each, but each worker runs what it popped on its
\* own.  When the execution of a task starts, every task that landed in
\* the same queue before it has started its execution or is in the hands
\* of another worker that popped it and has not run it yet.
C17_FifoHandOut ==
    [][\A w \in Workers :
          ExecStarts(w) =>
             \A a \in LandedBefore(thr[w].item) :
                \/ executed[a] >= 1
                \/ \E v \in Workers \ {w} : InHand(v, a)
      ]_vars

\* a task has run while one that landed before it in the same queue is
\* still in the hands of another worker
C17_Witness ==
    \E x \in Tasks :
       /\ executed[x] = 1
       /\ \E a \in LandedBefore(x) :
             executed[a] = 0 /\ \E v \in Workers : InHand(v, a)

\* C18: a task is executed only if it was enqueued before close returned
\* for its queue.  No task that took its push ticket, and so was committed
\* to its slot, after done() had returned for that queue is ever executed
\* by a worker.
C18_NoExecutionAfterClose == \A x \in pool.late : executed[x] = 0

\* m_openSlots.wait() returns false to the blocking push of client c in
\* this step
PushDropped(c) ==
    /\ thr[c].qop = "push" /\ thr[c].sem[1] = "open"
    /\ thr[c].pc = "in_wait" /\ thr'[c].pc \notin InnerWaitPcs
    /\ ~semaphore_wait_result(sems[thr[c].sem].m_semaphore)

\* the tasks whose enqueue_work has returned without a push carried out
DroppedTasks ==
    {x \in Tasks : /\ \A c \in Clients : x \notin Range(thr[c].todo)
                   /\ \A c \in Clients : \A k \in DOMAIN thr[c].got :
                         thr[c].got[k][1] # x}

\* C19: dropped push on a closed queue.  A blocking push whose
\* open_slots.wait() returns false returns with no push ticket taken, no
\* slot written, push_commit unchanged and full_slots not posted: the queue
\* and full_slots are as they were, the task has no ticket in any queue,
\* and from then on the task takes no ticket and is never executed.
C19_DroppedPushFrame ==
    [][/\ \A c \in Clients :
             PushDropped(c) =>
                /\ thr'[c].qop = "none" /\ thr'[c].pc = "idle"
                /\ queues' = queues /\ pushed' = pushed
                /\ \A q \in DOMAIN queues : sems'[<<"full", q>>] = sems[<<"full", q>>]
                /\ queues[thr[c].q].m_done
                /\ \A q \in DOMAIN queues : thr[c].item \notin Range(pushed[q])
       /\ \A x \in DroppedTasks :
             /\ executed'[x] = 0
             /\ \A q \in DOMAIN queues : x \notin Range(pushed'[q])
                                         /\ x \notin Range(queues'[q].m_data)
      ]_vars

\* a push has been dropped, every client is done, and the pool is gone
C19_Witness ==
    /\ DroppedTasks # {}
    /\ \A c \in Clients : thr[c].pc = "idle" /\ thr[c].todo = <<>>
    /\ thr[Owner].pc = "d_end"

---------------------------------------------------------------------------
(* Further claims about fast_semaphore *)

\* the calls that have decremented m_count and not given the decrement
\* back: the waits and wait_for calls that returned true, and the waits
\* parked on the inner semaphore after their fetch_sub
Decrements ==
    tally.wait_true + tally.try_true + Cardinality(Parked(TheSem))

\* C20: hybrid signal quiescent invariant.  On a fast_semaphore on which
\* done() has not been called, whenever no post or wait call is in
\* progress (parked waits apart), m_count equals the initial count plus the
\* completed posts minus the waits that decremented it; if m_count < 0
\* exactly -m_count waiters are parked on the inner semaphore and the inner
\* semaphore's count is 0; and nobody is parked while m_count >= 0.
C20_HybridQuiescent ==
    (sut = "fast_semaphore" /\ tally.done = 0 /\ Quiescent)
        => LET c == sems[TheSem].m_count
               parked == Cardinality(Parked(TheSem))
           IN /\ c = init_count + tally.post - Decrements
              /\ c < 0 => /\ parked = -c
                          /\ sems[TheSem].m_semaphore.m_count = 0
              /\ c >= 0 => parked = 0

\* quiescent with a waiter parked after a post was consumed by a wait_for
C20_Witness ==
    /\ sut = "fast_semaphore" /\ tally.done = 0 /\ Quiescent
    /\ sems[TheSem].m_count < 0
    /\ Cardinality(Parked(TheSem)) = -sems[TheSem].m_count
    /\ tally.post >= 1 /\ tally.try_true >= 1

\* the posts cover the waits: the initial count plus the posts issued is at
\* least the blocking waits issued plus the wait_for calls that took a post
PostsCoverWaits ==
    init_count + tally.post >= tally.wait + tally.try_true

\* C21: no lost wake-up.  Under fair scheduling, on a semaphore and on a
\* fast_semaphore, no blocking wait stays inside the call for ever while
\* the object is closed or the posts cover the waits (a post that finds the
\* counter negative, its waiter not yet parked, releases a waiter all the
\* same), and no waiter stays parked for ever while a post is unconsumed.
C21_NoLostWakeUp ==
    /\ \A u \in Callers :
          []<>(~(thr[u].call = "wait" /\ (closing.called \/ PostsCoverWaits)))
    /\ []<>(~(Parked(TheSem) # {} /\ Tokens > 0))

\* a post has found the counter negative and posted the inner semaphore
\* while its waiter, past the fetch_sub, has not yet entered the condition
\* wait
C21_Witness ==
    /\ sut = "fast_semaphore" /\ tally.done = 0
    /\ Parked(TheSem) = {}
    /\ sems[TheSem].m_count = 0
    /\ sems[TheSem].m_semaphore.m_count = 1
    /\ \E u \in DOMAIN thr : thr[u].call = "wait" /\ thr[u].pc = "in_wait"

---------------------------------------------------------------------------
(* Claims about the commit counters of atomic_blocking_queue_impl *)

\* the threads between the ticket and the increment of the commit counter
\* of impl push on queue q, and those past the commit spin
PushInFlight(q) ==
    {t \in DOMAIN thr : thr[t].q = q
                         /\ thr[t].pc \in {"qpush_write", "qpush_spin", "qpush_commit"}}

PushCommitting(q) == {t \in DOMAIN thr : thr[t].q = q /\ thr[t].pc = "qpush_commit"}

\* the same for impl pop
PopInFlight(q) ==
    {t \in DOMAIN thr : thr[t].q = q
                         /\ thr[t].pc \in {"qpop_read", "qpop_spin", "qpop_commit"}}

PopCommitting(q) == {t \in DOMAIN thr : thr[t].q = q /\ thr[t].pc = "qpop_commit"}

\* C22: ticket-queue commit discipline.  In every reachable state
\* m_pushIndex <= m_pushingIndex and m_popIndex <= m_popingIndex, and each
\* commit counter equals the tickets taken less the calls still between
\* ticket and increment (no increment lost or made twice).  At most one
\* thread is past the commit spin at a time, its ticket is the value of the
\* counter and its element is constructed (moved out, for a pop); a commit
\* counter changes only by the increment of that thread, by exactly one.
C22_CommitDiscipline ==
    /\ [](\A q \in DOMAIN queues :
            /\ queues[q].m_pushIndex <= queues[q].m_pushingIndex
            /\ queues[q].m_popIndex <= queues[q].m_popingIndex
            /\ queues[q].m_pushIndex
                  = queues[q].m_pushingIndex - Cardinality(PushInFlight(q))
            /\ queues[q].m_popIndex
                  = queues[q].m_popingIndex - Cardinality(PopInFlight(q))
            /\ Cardinality(PushCommitting(q)) <= 1
            /\ Cardinality(PopCommitting(q)) <= 1
            /\ \A t \in PushCommitting(q) :
                  /\ thr[t].expected = queues[q].m_pushIndex
                  /\ queues[q].m_data[slot_of(thr[t].expected, queues[q])] = thr[t].item
            /\ \A t \in PopCommitting(q) :
                  /\ thr[t].expected = queues[q].m_popIndex
                  /\ thr[t].item = pushed[q][thr[t].expected + 1])
    /\ [][\A q \in DOMAIN queues :
            /\ queues'[q].m_pushIndex # queues[q].m_pushIndex =>
                  /\ queues'[q].m_pushIndex = queues[q].m_pushIndex + 1
                  /\ \E t \in PushCommitting(q) : thr'[t].pc # "qpush_commit"
            /\ queues'[q].m_popIndex # queues[q].m_popIndex =>
                  /\ queues'[q].m_popIndex = queues[q].m_popIndex + 1
                  /\ \E t \in PopCommitting(q) : thr'[t].pc # "qpop_commit"
       ]_vars

\* two producers hold consecutive tickets: one is about to increment
\* m_pushIndex, the other has constructed its element and waits for its
\* turn; a pop has been committed before
C22_Witness ==
    /\ queues[0].m_pushIndex >= 1 /\ queues[0].m_popIndex >= 1
    /\ PushCommitting(0) # {}
    /\ \E t \in QProducers :
          thr[t].pc = "qpush_spin" /\ thr[t].expected = queues[0].m_pushIndex + 1

\* C23: signal gating makes slot access safe, before and after close.  In
\* every reachable state m_popingIndex <= m_pushIndex and m_pushingIndex -
\* m_popIndex <= Q_SIZE; a pop that is about to read the slot of its ticket
\* e finds m_pushIndex > e, a push that is about to write the slot of its
\* ticket t finds m_popIndex > t - Q_SIZE; no pop has moved out of a slot
\* that holds no element and no push has constructed over a live one.
C23_SignalGating ==
    \A q \in DOMAIN queues :
        /\ queues[q].m_popingIndex <= queues[q].m_pushIndex
        /\ queues[q].m_pushingIndex - queues[q].m_popIndex <= Q_SIZE(queues[q])
        /\ ~queues[q].ub
        /\ \A t \in DOMAIN thr :
              /\ (thr[t].q = q /\ thr[t].pc = "qpop_read")
                    => /\ queues[q].m_pushIndex > thr[t].expected
                       /\ queues[q].m_data[slot_of(thr[t].expected, queues[q])]
                             = pushed[q][thr[t].expected + 1]
              /\ (thr[t].q = q /\ thr[t].pc = "qpush_write")
                    => /\ queues[q].m_popIndex > thr[t].expected - Q_SIZE(queues[q])
                       /\ queues[q].m_data[slot_of(thr[t].expected, queues[q])] = 0

\* the queue is closed, a blocking push has returned with its wait false,
\* and the same producer has since written a slot that was used before
C23_Witness ==
    /\ queues[0].m_done
    /\ \E p \in QProducers :
          /\ thr[p].last = <<"push", FALSE>>
          /\ thr[p].pc = "qpush_spin"
          /\ thr[p].expected >= Q_SIZE(queues[0])

---------------------------------------------------------------------------
(* Claims about the worker loop and enqueue_work *)

\* worker w enters the blocking pop in this step
ParksOnPop(w) == thr[w].qop # "pop" /\ thr'[w].qop = "pop"

\* worker w leaves its loop in this step
WorkerExits(w) == thr[w].pc # "w_exit" /\ thr'[w].pc = "w_exit"

\* C24: worker loop protocol.  A worker enters the blocking pop only on its
\* home queue, and only from the last of K * Q consecutive try_pop calls,
\* begun at its home queue, that all failed; it leaves its loop only from a
\* blocking pop on its home queue that yielded no task; its home queue has
\* then been closed and holds no item whose push had completed (other than
\* items that another pop is entitled to and is about to move); every
\* queue is the home queue of some worker.
C24_WorkerLoopProtocol ==
    [][/\ \A q \in DOMAIN queues : \E w \in Workers : thr[w].home = q
       /\ \A w \in Workers :
             /\ thr[w].home = (w - 1) % pool_m_count
             /\ ParksOnPop(w) =>
                   /\ thr'[w].q = thr[w].home
                   /\ thr[w].qop = "try_pop" /\ thr[w].item = 0
                   /\ thr[w].n = pool_m_count * K - 1
                   /\ thr[w].q = (thr[w].home + thr[w].n) % pool_m_count
             /\ WorkerExits(w) =>
                   /\ thr[w].qop = "pop" /\ thr[w].q = thr[w].home
                   /\ thr[w].item = 0
                   /\ queues[thr[w].home].m_done
                   /\ Cardinality(HeldCompleted(thr[w].home))
                         <= Cardinality(PopClaimants(thr[w].home))
      ]_vars

\* enqueue_work hands std::move(work) to every try_push and to push.  The
\* parameter is a Proc&&, so each call expression builds a temporary Proc
\* by moving the closure work, captures and all, whether or not the call
\* goes on to enqueue it: only the Proc of the first try_push of a call is
\* built from the closure as enqueue_work made it, every later one from a
\* closure that has been moved from.
work_intact(r) == r.qop = "try_push" /\ r.n = 0

\* client c constructs its Proc in a slot in this step
Constructs(c) == thr[c].pc = "qpush_write" /\ thr'[c].pc # "qpush_write"

\* enqueue_work returns to client c in this step
EnqueueReturns(c) == thr[c].pc # "idle" /\ thr'[c].pc = "idle"

\* the places of task x in the queues, by push ticket
PlacesOf(x) ==
    {qk \in UNION {{<<q, k>> : k \in DOMAIN pushed'[q]} : q \in DOMAIN pushed'} :
        pushed'[qk[1]][qk[2]] = x}

\* enqueue_work returns with its task placed once, in the queue of the
\* first try_push that succeeded, or in queue i % m_count by the blocking
\* push after all K * m_count try_push calls failed
PlacedOnce(c) ==
    /\ PlacesOf(thr[c].item) = {<<thr[c].q, thr[c].expected + 1>>}
    /\ thr[c].q = IF thr[c].qop = "try_push"
                  THEN (thr[c].i + thr[c].n) % pool_m_count
                  ELSE thr[c].i % pool_m_count
    /\ thr[c].qop = "push" => thr[c].n = pool_m_count * K - 1

\* C25: submission places the task once.  Every enqueue_work call that
\* returns before the destructor has begun has enqueued its task into
\* exactly one queue, the first queue (i + n) mod Q whose try_push
\* succeeded or else queue i mod Q through the blocking push; and what it
\* enqueues is the task as submitted: a try_push that failed has not
\* consumed it.
C25_SubmissionPlacesTaskOnce ==
    [][\A c \in Clients :
          /\ (EnqueueReturns(c) /\ ~pool.started) => PlacedOnce(c)
          /\ Constructs(c) => work_intact(thr[c])
      ]_vars

\* the same without the demand that the task be intact
SubmissionPlacesOnce ==
    [][\A c \in Clients :
          (EnqueueReturns(c) /\ ~pool.started) => PlacedOnce(c)
      ]_vars

---------------------------------------------------------------------------
(* Claims about try_push and try_pop *)

\* the try_push or try_pop of thread t returns false in this step
TryFails(t) ==
    /\ thr[t].qop \in {"try_push", "try_pop"} /\ thr[t].call = "wait_for"
    /\ thr'[t].pc = "idle" /\ thr'[t].last = <<thr[t].qop, FALSE>>

\* C26: try_push fails only under capacity pressure and try_pop only when
\* nothing is available.  A try_push returns false only if m_openSlots'
\* counter was zero or negative at some moment of the call, a try_pop only
\* if m_fullSlots' counter was; what other threads acquire or post does not
\* make a try operation fail while the counter stays positive.
C26_TryFailsOnlyUnderPressure ==
    [][\A t \in DOMAIN thr : TryFails(t) => t \in low]_vars

---------------------------------------------------------------------------
(* PoolRingSpec: the threads of a pool on one LockFreeQueue, with the      *)
(* thread ids that the sources give them.  The queue is constructed with   *)
(* its default arguments, as a default-constructed member is; the client  *)
(* pushes and the workers pop.                                             *)

\* static thread_local size_t __thr_id: zero-initialised in every thread
StartId == 0

\* the id of worker w: the worker lambda makes no call of set_thr_id, so
\* thr_id() returns the initial value of __thr_id in its thread
worker_thr_id(w) == StartId

\* the id of the submitting thread: main calls set_thr_id(0)
client_thr_id == 0

\* LockFreeQueue(size_t n_producers = 1, size_t n_consumers = 2)
default_n_producers == 1

default_n_consumers == 2

\* thread 1 is the client, thread w + 2 is worker w
RingClient == 1

WorkerIndex(t) == t - 2

PoolRingInit ==
    /\ \E size \in RingSizes :
          ring = LockFreeQueue(default_n_producers, default_n_consumers, size)
    /\ \E W \in 1..(MaxRingThreads - 1) :
          thr = [t \in 1..(W + 1) |->
                    IF t = RingClient
                    THEN ring_thread("pusher", client_thr_id, MaxRingOps)
                    ELSE ring_thread("popper", worker_thr_id(WorkerIndex(t)),
                                     RingOpsOf(t - 1, W))]
    /\ sems = <<>> /\ queues = <<>> /\ pushed = <<>>
    /\ m_index = 0 /\ executed = <<>> /\ pool = <<>> /\ build = <<>> /\ low = {} /\ dtor = <<>>
    /\ sut = "LockFreeQueue" /\ init_count = 0
    /\ ref = semaphore(0) /\ seq = TRUE
    /\ closing = [called |-> FALSE, returned |-> FALSE, waiters |-> {},
                  pending |-> FALSE, posts |-> 0, quiet |-> FALSE]
    /\ tally = [post |-> 0, wait |-> 0, wait_for |-> 0, done |-> 0,
                wait_true |-> 0, wait_false |-> 0, try_true |-> 0]

PoolRingSpec == PoolRingInit /\ [][RingNext]_vars

\* the threads that hold a head reservation, a tail reservation, in row i:
\* between the store of the ticket and the store of ULONG_MAX
HeadReservations(i) ==
    {t \in Pushers : thr[t].id = i
                      /\ thr[t].pc \in {"push_check", "push_min", "push_scan",
                                          "push_recheck", "push_construct",
                                          "push_publish"}}

TailReservations(i) ==
    {t \in Poppers : thr[t].id = i
                      /\ thr[t].pc \in {"pop_check", "pop_min", "pop_scan",
                                          "pop_recheck", "pop_swap", "pop_publish"}}

\* C27: thread-id discipline.  Every thread that uses the LockFreeQueue of
\* a pool has an id below max(n_producers, n_consumers), worker w has id
\* w, no two threads have the same id, and so every row of thr_p_ holds at
\* most one head and one tail reservation at any moment.
C27_ThreadIdDiscipline ==
    /\ \A t \in DOMAIN thr : thr[t].id \in DOMAIN ring.thr_p_
    /\ \A t \in Poppers : thr[t].id = WorkerIndex(t)
    /\ DistinctIds
    /\ \A i \in DOMAIN ring.thr_p_ :
          /\ Cardinality(HeadReservations(i)) <= 1
          /\ Cardinality(TailReservations(i)) <= 1

\* the rows alone: at most one reservation of a kind in a row
OneReservationPerRow ==
    \A i \in DOMAIN ring.thr_p_ :
        /\ Cardinality(HeadReservations(i)) <= 1
        /\ Cardinality(TailReservations(i)) <= 1

---------------------------------------------------------------------------
(* DtorSpec: ~atomic_blocking_queue_impl() on a queue at rest, statement   *)
(* by statement.  The queue has had push_commit pushes and pop_commit      *)
(* pops, all of them returned; its Q_SIZE and the two counters are drawn   *)
(* from bounded sets.                                                      *)

DtorSizes == {2 ^ k : k \in 0..DtorSizeLog}

\* a queue object after pu pushes and po pops have returned: the slots of
\* tickets po + 1 .. pu hold their items (item k has ticket k), the others
\* hold no element
queue_at_rest(size, po, pu) ==
    [atomic_blocking_queue(size) EXCEPT
        !.m_pushIndex = pu, !.m_pushingIndex = pu,
        !.m_popIndex = po, !.m_popingIndex = po,
        !.m_data = [k \in 0..(size - 1) |->
                      IF \E e \in (po + 1)..pu : BitAnd(e - 1, size - 1) = k
                      THEN CHOOSE e \in (po + 1)..pu : BitAnd(e - 1, size - 1) = k
                      ELSE 0]]

\* the queue that is destroyed
Dying == 0

\* m_popIndex & Q_MASK != m_pushIndex & Q_MASK: != binds tighter than &,
\* so this is (m_popIndex & (Q_MASK != m_pushIndex)) & Q_MASK, the
\* comparison giving 1 or 0
dtor_condition(queue) ==
    BitAnd(BitAnd(queue.m_popIndex,
                  IF Q_MASK(queue) # queue.m_pushIndex THEN 1 ELSE 0),
           Q_MASK(queue))

\* while (...): the test
dtor_test ==
    /\ dtor.pc = "test"
    /\ dtor' = [dtor EXCEPT !.pc = IF dtor_condition(queues[Dying]) # 0
                                    THEN "destroy" ELSE "delete"]
    /\ UNCHANGED queues

\* m_data[m_popIndex & Q_MASK].~T().  On a slot that holds no element the
\* destructor call is undefined: the loop goes on, or the thread stops
\* there.
dtor_destroy ==
    /\ dtor.pc = "destroy"
    /\ LET k == BitAnd(queues[Dying].m_popIndex, Q_MASK(queues[Dying]))
           raw == queues[Dying].m_data[k] = 0
       IN /\ queues' = [queues EXCEPT ![Dying].m_data[k] = 0,
                                       ![Dying].ub = @ \/ raw]
          /\ \/ dtor' = [dtor EXCEPT !.destroyed = Append(@, k),
                                       !.pc = "increment"]
             \/ raw /\ dtor' = [dtor EXCEPT !.destroyed = Append(@, k),
                                             !.pc = "crashed"]

\* m_popIndex++
dtor_increment ==
    /\ dtor.pc = "increment"
    /\ queues' = [queues EXCEPT ![Dying].m_popIndex = @ + 1]
    /\ dtor' = [dtor EXCEPT !.pc = "test"]

\* ::operator delete(m_data)
dtor_delete ==
    /\ dtor.pc = "delete"
    /\ dtor' = [dtor EXCEPT !.pc = "done"]
    /\ UNCHANGED queues

\* the destructor is entered; push_commit and pop_commit keep the counters
\* found, destroyed the slots whose destructor has been called, in order
DtorInit ==
    /\ \E size \in DtorSizes, po \in 0..MaxDtorIndex, n \in 0..(2 ^ DtorSizeLog) :
          /\ n <= size
          /\ queues = [q \in {Dying} |-> queue_at_rest(size, po, po + n)]
          /\ dtor = [pc |-> "test", push_commit |-> po + n, pop_commit |-> po,
                     destroyed |-> <<>>]
    /\ sems = <<>> /\ thr = <<>> /\ pushed = <<>> /\ ring = <<>>
    /\ m_index = 0 /\ executed = <<>> /\ pool = <<>> /\ build = <<>> /\ low = {}
    /\ sut = "atomic_blocking_queue_impl" /\ init_count = 0
    /\ ref = semaphore(0) /\ seq = TRUE
    /\ closing = [called |-> FALSE, returned |-> FALSE, waiters |-> {},
                  pending |-> FALSE, posts |-> 0, quiet |-> FALSE]
    /\ tally = [post |-> 0, wait |-> 0, wait_for |-> 0, done |-> 0,
                wait_true |-> 0, wait_false |-> 0, try_true |-> 0]

\* what DtorSpec never touches
DtorGhost ==
    UNCHANGED <<sems, thr, m_index, executed, pushed, pool, sut, init_count,
                ref, seq, closing, tally, ring, build, low>>

DtorNext ==
    \/ dtor_test /\ DtorGhost
    \/ dtor_destroy /\ DtorGhost
    \/ dtor_increment /\ DtorGhost
    \/ dtor_delete /\ DtorGhost

DtorSpec == DtorInit /\ [][DtorNext]_vars

---------------------------------------------------------------------------
(* Claims about the destructor of atomic_blocking_queue_impl *)

\* the slots that hold an element when the destructor is entered:
\* (pop_commit + k) & Q_MASK for k = 0 .. push_commit - pop_commit - 1
StillInitialised ==
    {BitAnd(dtor.pop_commit + k, Q_MASK(queues[Dying])) :
        k \in 0..(dtor.push_commit - dtor.pop_commit - 1)}

\* C29: queue destruction destroys exactly the still-initialised slots.
\* When the destructor of a queue at rest with commit counters push_commit
\* and pop_commit has run, it has destroyed exactly the push_commit -
\* pop_commit elements at indices (pop_commit + k) mod capacity, each
\* once, and at no moment any other slot.
C29_DtorDestroysInitialised ==
    /\ Range(dtor.destroyed) \subseteq StillInitialised
    /\ \A a, b \in DOMAIN dtor.destroyed :
          a # b => dtor.destroyed[a] # dtor.destroyed[b]
    /\ dtor.pc = "done" => Range(dtor.destroyed) = StillInitialised

\* the destructor never calls ~T() on a slot that holds no element
DtorDestroysOnlyInitialised == Range(dtor.destroyed) \subseteq StillInitialised

\* the destructor leaves no element behind
DtorLeavesNone ==
    dtor.pc = "done" => StillInitialised \subseteq Range(dtor.destroyed)

====
